---- MODULE Spec2Model ----
(***************************************************************************)
(* Provider registries of pocketflow.utils (llm, search, embedding) and    *)
(* the dispatch functions call_llm / web_search / embed, modelled at the   *)
(* granularity of one shared-state access per step so that interleavings   *)
(* of threads are visible.                                                 *)
(*                                                                         *)
(* Python values are encoded as sequences of one-character strings (a str) *)
(* or as a one-element sequence holding a tag that is no character (None,  *)
(* a non-string object).                                                   *)
(***************************************************************************)
EXTENDS Naturals, Sequences, FiniteSets, TLC

\* ------------------------------------------------------------------ bounds
NumThreads == 2
MaxCalls == 3

Threads == 1..NumThreads

\* ------------------------------------------------------------------ values
Chars == {"a", "b", "m", "x", "h", "/", " ",
          "{", "}", ".", "0", "q", "i", "n", "p", "u", "t"}
None == <<"None">>
NotAStr == <<"int">>
Domains == {"llm", "search", "embedding"}
AddressDomains == {"llm", "embedding"}

\* Provider functions are opaque callables; NotCallable stands for any object
\* that callable() rejects.
Fns == {"f1", "f2"}
NotCallable == "notcallable"
NoFn == "nofn"

\* num_results=5, the second positional argument web_search hands its provider
NumResultsArg == <<"5">>

IsStr(v) == \A i \in 1..Len(v) : v[i] \in Chars
\* Python truthiness of None / a str
Truthy(v) == v # None /\ v # <<>>
HasSlash(s) == \E i \in 1..Len(s) : s[i] = "/"

RECURSIVE LStrip(_)
LStrip(s) == IF s # <<>> /\ Head(s) = " " THEN LStrip(Tail(s)) ELSE s
RECURSIVE RStrip(_)
RStrip(s) ==
    IF s # <<>> /\ s[Len(s)] = " " THEN RStrip(SubSeq(s, 1, Len(s) - 1)) ELSE s
\* str.strip()
Strip(s) == RStrip(LStrip(s))

\* A faulty split at the last "/" (str.rsplit("/", 1)).
SplitLast(s) ==
    LET i == CHOOSE k \in 1..Len(s) :
                 s[k] = "/" /\ \A j \in (k + 1)..Len(s) : s[j] # "/"
    IN  <<SubSeq(s, 1, i - 1), SubSeq(s, i + 1, Len(s))>>

\* str.split("/", 1) of a str that contains "/": <<parts[0], parts[1]>>
SplitOnce(s) ==
    LET i == CHOOSE k \in 1..Len(s) :
                 s[k] = "/" /\ \A j \in 1..(k - 1) : s[j] # "/"
    IN  <<SubSeq(s, 1, i - 1), SubSeq(s, i + 1, Len(s))>>

\* ------------------------------------------------------------------ state
VARIABLES
    providers,   \* [Domains -> dict name -> fn]      module-level _providers
    default,     \* [Domains -> name or None]         module-level _default
    lock,        \* [Domains -> set of holders]       module-level _lock
    pc,          \* [Threads -> position in register / dispatch]
    call,        \* [Threads -> arguments of the call in progress]
    provider,    \* [Threads -> local `provider`]
    model_name,  \* [Threads -> local `model_name`]
    fnref,       \* [Threads -> local `fn`]
    last,        \* the call that finished last, with its outcome
    calls,       \* number of calls started so far (bounded by MaxCalls)
    cleared,     \* [Domains -> BOOLEAN]  _default was reset from outside
    firstReg,    \* [Domains -> first name whose register() returned]
    okReg,       \* [Domains -> <<name, fn>> of the register() that returned]
    focus,       \* the registries the callers of this run use (never changes)
    stack,       \* [Threads -> frames of dispatches whose provider is calling]
    node,        \* the LLMNode: its constructor arguments
    shared,      \* the shared store handed to node.run
    phase,       \* how far node.run has got
    prep_res,    \* what prep returned: the context dict
    exec_res     \* what exec returned or raised

\* the variables of the adapter; register and the dispatchers leave them alone
nodeVars == <<node, shared, phase, prep_res, exec_res>>
vars == <<providers, default, lock, pc, call, provider, model_name, fnref,
          last, calls, cleared, firstReg, okReg, focus, stack, nodeVars>>

EmptyDict == [n \in {} |-> NoFn]
\* **kwargs of a dispatch, as a set of <<keyword, value>> pairs
NoOptions == {}
NoCall == [op |-> "none", dom |-> "llm", name |-> None, fn |-> NoFn,
           payload |-> None, model |-> None, options |-> NoOptions]
\* What a provider function was called with; the mock providers of the tests
\* return a value made of exactly these.
NoValue == [by |-> NoFn, payload |-> None, model |-> None,
            options |-> NoOptions]
ProviderValue(f, p, m, o) ==
    [by |-> f, payload |-> p, model |-> m, options |-> o]

\* The outcome of a call: returned `value`, or raised `err`; `invoked` is the
\* provider function the call ran (NoFn: none).
Returned(v, f) == [status |-> "ok", err |-> "", variant |-> "", avail |-> {},
                   value |-> v, invoked |-> f]
Raised(e, v, a, f) == [status |-> "error", err |-> e, variant |-> v,
                       avail |-> a, value |-> NoValue, invoked |-> f]
NoLast == [call |-> NoCall, thread |-> {},
           out |-> [status |-> "none", err |-> "", variant |-> "",
                    avail |-> {}, value |-> NoValue, invoked |-> NoFn]]

\* The adapter before an LLMNode is built and run.
EmptyShared == [k \in {} |-> <<>>]
NoNode == [input_key |-> None, output_key |-> None, prompt_template |-> <<>>,
           model |-> None, llm_kwargs |-> NoOptions]
NoExec == [status |-> "none", err |-> "", prompt |-> None, value |-> NoValue]
NodeIdle ==
    /\ node = NoNode
    /\ shared = EmptyShared
    /\ phase = "none"
    /\ prep_res = EmptyShared
    /\ exec_res = NoExec

InitState ==
    /\ NodeIdle
    /\ stack = [t \in Threads |-> <<>>]
    /\ providers = [d \in Domains |-> EmptyDict]
    /\ default = [d \in Domains |-> None]
    /\ lock = [d \in Domains |-> {}]
    /\ pc = [t \in Threads |-> "idle"]
    /\ call = [t \in Threads |-> NoCall]
    /\ provider = [t \in Threads |-> None]
    /\ model_name = [t \in Threads |-> None]
    /\ fnref = [t \in Threads |-> NoFn]
    /\ last = NoLast
    /\ calls = 0
    /\ cleared = [d \in Domains |-> FALSE]
    /\ firstReg = [d \in Domains |-> None]
    /\ okReg = [d \in Domains |-> {}]

\* A call begins: the caller has consumed the outcome of the call before it.
Enter(t, d) ==
    /\ pc[t] = "idle"
    /\ d \in focus
    /\ calls < MaxCalls
    /\ calls' = calls + 1
    /\ UNCHANGED <<providers, default, lock, cleared, firstReg, okReg,
                   focus, stack, nodeVars>>

\* The names whose register() returned
OkNames(d) == {r[1] : r \in okReg[d]}

\* A call of thread t ends with outcome o: its frame (arguments, locals) is
\* gone and the caller has the outcome.
Exit(t, c, o) ==
    /\ pc' = [pc EXCEPT ![t] = "idle"]
    /\ call' = [call EXCEPT ![t] = NoCall]
    /\ provider' = [provider EXCEPT ![t] = None]
    /\ model_name' = [model_name EXCEPT ![t] = None]
    /\ fnref' = [fnref EXCEPT ![t] = NoFn]
    /\ last' = [call |-> c, thread |-> {t}, out |-> o]

\* ------------------------------------------------------------------ register
\* A faulty validation that accepts names padded with whitespace.
RegisterErrorNoStrip(n, f) ==
    IF ~Truthy(n) \/ ~IsStr(n) THEN "InvalidProviderName"
    ELSE IF HasSlash(n) THEN "InvalidProviderName"
    ELSE IF f \notin Fns THEN "NotCallable"
    ELSE ""

\* The validation of register(name, fn): the error raised, or "" when valid.
RegisterError(n, f) ==
    IF ~Truthy(n) \/ ~IsStr(n) THEN "InvalidProviderName"
    ELSE IF Strip(n) # n THEN "InvalidProviderName"
    ELSE IF HasSlash(n) THEN "InvalidProviderName"
    ELSE IF f \notin Fns THEN "NotCallable"
    ELSE ""

\* A faulty register that elects the default without storing the function.
StartRegisterElectOnly(t, d, n, f) ==
    LET c == [op |-> "register", dom |-> d, name |-> n, fn |-> f,
              payload |-> None, model |-> None, options |-> NoOptions]
        e == RegisterError(n, f)
    IN  /\ Enter(t, d)
        /\ IF e # ""
           THEN Exit(t, c, Raised(e, "", {}, NoFn))
           ELSE /\ pc' = [pc EXCEPT ![t] = "reg_check"]
                /\ call' = [call EXCEPT ![t] = c]
                /\ last' = NoLast
                /\ UNCHANGED <<provider, model_name, fnref>>

\* register(): the lines up to the first access of the shared pair
StartRegister(t, d, n, f) ==
    LET c == [op |-> "register", dom |-> d, name |-> n, fn |-> f,
              payload |-> None, model |-> None, options |-> NoOptions]
        e == RegisterError(n, f)
    IN  /\ Enter(t, d)
        /\ IF e # ""
           THEN Exit(t, c, Raised(e, "", {}, NoFn))
           ELSE /\ pc' = [pc EXCEPT ![t] = "reg_insert"]
                /\ call' = [call EXCEPT ![t] = c]
                /\ last' = NoLast
                /\ UNCHANGED <<provider, model_name, fnref>>

\* register() returns normally
RegisterReturn(t) ==
    LET d == call[t].dom
        n == call[t].name
    IN  /\ Exit(t, call[t], Returned(NoValue, NoFn))
        /\ okReg' = [okReg EXCEPT ![d] = @ \cup {<<n, call[t].fn>>}]
        /\ firstReg' = [firstReg EXCEPT ![d] = IF @ = None THEN n ELSE @]

\* A faulty insert that keeps an entry that is already there (setdefault).
RegInsertKeepingOld(t) ==
    /\ pc[t] = "reg_insert"
    /\ providers' = [providers EXCEPT
                       ![call[t].dom] = @ @@ (call[t].name :> call[t].fn)]
    /\ pc' = [pc EXCEPT ![t] = "reg_check"]
    /\ UNCHANGED <<default, lock, call, provider, model_name, fnref, last,
                   calls, cleared, firstReg, okReg, focus, stack, nodeVars>>

\* A faulty insert that rebinds _providers to a fresh one-entry dict.
RegInsertReplacing(t) ==
    /\ pc[t] = "reg_insert"
    /\ providers' = [providers EXCEPT
                       ![call[t].dom] = (call[t].name :> call[t].fn)]
    /\ pc' = [pc EXCEPT ![t] = "reg_check"]
    /\ UNCHANGED <<default, lock, call, provider, model_name, fnref, last,
                   calls, cleared, firstReg, okReg, focus, stack, nodeVars>>

\* _providers[name] = fn
RegInsert(t) ==
    /\ pc[t] = "reg_insert"
    /\ providers' = [providers EXCEPT
                       ![call[t].dom] = (call[t].name :> call[t].fn) @@ @]
    /\ pc' = [pc EXCEPT ![t] = "reg_check"]
    /\ UNCHANGED <<default, lock, call, provider, model_name, fnref, last,
                   calls, cleared, firstReg, okReg, focus, stack, nodeVars>>

\* A faulty register that sets the default without testing it.
RegCheckDefaultAlways(t) ==
    /\ pc[t] = "reg_check"
    /\ pc' = [pc EXCEPT ![t] = "reg_set"]
    /\ UNCHANGED <<providers, default, lock, call, provider, model_name,
                   fnref, last, calls, cleared, firstReg, okReg,
                   focus, stack, nodeVars>>

\* if _default is None:
RegCheckDefault(t) ==
    /\ pc[t] = "reg_check"
    /\ IF default[call[t].dom] = None
       THEN /\ pc' = [pc EXCEPT ![t] = "reg_set"]
            /\ UNCHANGED <<call, provider, model_name, fnref, last,
                           firstReg, okReg>>
       ELSE RegisterReturn(t)
    /\ UNCHANGED <<providers, default, lock, calls, cleared,
                   focus, stack, nodeVars>>

\* _default = name
RegSetDefault(t) ==
    /\ pc[t] = "reg_set"
    /\ default' = [default EXCEPT ![call[t].dom] = call[t].name]
    /\ RegisterReturn(t)
    /\ UNCHANGED <<providers, lock, calls, cleared, focus, stack, nodeVars>>

\* ------------------------------------------------------------------ dispatch
\* A faulty parse that lets an empty provider part through.
ParseNoEmptyCheck(d, p, m) ==
    IF ~IsStr(p)
    THEN [err |-> "InvalidPayloadType", provider |-> None, model_name |-> None]
    ELSE IF d \in AddressDomains
    THEN IF Truthy(m) /\ HasSlash(m)
         THEN [err |-> "", provider |-> SplitOnce(m)[1],
               model_name |-> SplitOnce(m)[2]]
         ELSE [err |-> "", provider |-> None, model_name |-> m]
    ELSE [err |-> "", provider |-> m, model_name |-> NumResultsArg]

\* The lines of call_llm / embed / web_search before `with _lock`: the error
\* raised ("" when none) and the locals provider, model_name.
\* A parse that splits the provider argument of web_search as call_llm and
\* embed split their model argument.
ParseSearchAsAddress(d, p, m) ==
    IF ~IsStr(p)
    THEN [err |-> "InvalidPayloadType", provider |-> None, model_name |-> None]
    ELSE IF Truthy(m) /\ HasSlash(m)
    THEN LET parts == SplitOnce(m)
         IN  IF parts[1] = <<>>
             THEN [err |-> "InvalidAddressFormat", provider |-> None,
                   model_name |-> None]
             ELSE [err |-> "", provider |-> parts[1], model_name |-> parts[2]]
    ELSE [err |-> "", provider |-> None, model_name |-> m]

\* A faulty parse that never tests the type of the payload.
ParseNoTypeCheck(d, p, m) ==
    IF d \in AddressDomains
    THEN IF Truthy(m) /\ HasSlash(m)
         THEN LET parts == SplitOnce(m)
              IN  IF parts[1] = <<>>
                  THEN [err |-> "InvalidAddressFormat", provider |-> None,
                        model_name |-> None]
                  ELSE [err |-> "", provider |-> parts[1],
                        model_name |-> parts[2]]
         ELSE [err |-> "", provider |-> None, model_name |-> m]
    ELSE [err |-> "", provider |-> m, model_name |-> NumResultsArg]

\* A faulty parse that looks at the address before the type of the payload.
ParseAddressFirst(d, p, m) ==
    IF d \in AddressDomains /\ Truthy(m) /\ HasSlash(m)
           /\ SplitOnce(m)[1] = <<>>
    THEN [err |-> "InvalidAddressFormat", provider |-> None,
          model_name |-> None]
    ELSE ParseNoEmptyCheck(d, p, m)

Parse(d, p, m) ==
    IF ~IsStr(p)
    THEN [err |-> "InvalidPayloadType", provider |-> None, model_name |-> None]
    ELSE IF d \in AddressDomains
    THEN IF Truthy(m) /\ HasSlash(m)
         THEN LET parts == SplitOnce(m)
              IN  IF parts[1] = <<>>
                  THEN [err |-> "InvalidAddressFormat", provider |-> None,
                        model_name |-> None]
                  ELSE [err |-> "", provider |-> parts[1],
                        model_name |-> parts[2]]
         ELSE [err |-> "", provider |-> None, model_name |-> m]
    ELSE [err |-> "", provider |-> m, model_name |-> NumResultsArg]

StartDispatch(t, d, p, m, o) ==
    LET c == [op |-> "dispatch", dom |-> d, name |-> None, fn |-> NoFn,
              payload |-> p, model |-> m, options |-> o]
        r == Parse(d, p, m)
    IN  /\ Enter(t, d)
        /\ IF r.err # ""
           THEN Exit(t, c, Raised(r.err, "", {}, NoFn))
           ELSE /\ pc' = [pc EXCEPT ![t] = "acquire"]
                /\ call' = [call EXCEPT ![t] = c]
                /\ provider' = [provider EXCEPT ![t] = r.provider]
                /\ model_name' = [model_name EXCEPT ![t] = r.model_name]
                /\ last' = NoLast
                /\ UNCHANGED fnref

\* A faulty dispatch whose lock stays taken when it fails while resolving.
RaiseLockedLeaking(t, e, v, a) ==
    /\ lock' = lock
    /\ Exit(t, call[t], Raised(e, v, a, NoFn))

\* A dispatch fails inside `with _lock`: the lock is released on the way out.
RaiseLocked(t, e, v, a) ==
    /\ lock' = [lock EXCEPT ![call[t].dom] = @ \ {t}]
    /\ Exit(t, call[t], Raised(e, v, a, NoFn))

\* A faulty dispatch that takes the locks of all three modules.
AcquireEveryLock(t) ==
    /\ pc[t] = "acquire"
    /\ \A d \in Domains : lock[d] = {}
    /\ lock' = [d \in Domains |-> {t}]
    /\ pc' = [pc EXCEPT ![t] = "read_default"]
    /\ UNCHANGED <<providers, default, call, provider, model_name, fnref,
                   last, calls, cleared, firstReg, okReg,
                   focus, stack, nodeVars>>

\* with _lock:  (blocks while another thread holds it)
Acquire(t) ==
    /\ pc[t] = "acquire"
    /\ lock[call[t].dom] = {}
    /\ lock' = [lock EXCEPT ![call[t].dom] = {t}]
    /\ pc' = [pc EXCEPT ![t] = "read_default"]
    /\ UNCHANGED <<providers, default, call, provider, model_name, fnref,
                   last, calls, cleared, firstReg, okReg,
                   focus, stack, nodeVars>>

\* A faulty fallback that takes some registered provider, not the default.
ReadDefaultAnyKey(t) ==
    /\ pc[t] = "read_default"
    /\ provider' = [provider EXCEPT
                      ![t] = IF @ # None THEN @
                             ELSE IF DOMAIN providers[call[t].dom] = {}
                             THEN None
                             ELSE CHOOSE n \in DOMAIN providers[call[t].dom] :
                                      TRUE]
    /\ pc' = [pc EXCEPT ![t] = "check_none"]
    /\ UNCHANGED <<providers, default, lock, call, model_name, fnref, last,
                   calls, cleared, firstReg, okReg, focus, stack, nodeVars>>

\* A faulty dispatch that prefers the default to the provider it was given.
ReadDefaultPreferred(t) ==
    /\ pc[t] = "read_default"
    /\ provider' = [provider EXCEPT
                      ![t] = IF default[call[t].dom] # None
                             THEN default[call[t].dom] ELSE @]
    /\ pc' = [pc EXCEPT ![t] = "check_none"]
    /\ UNCHANGED <<providers, default, lock, call, model_name, fnref, last,
                   calls, cleared, firstReg, okReg, focus, stack, nodeVars>>

\* if provider is None: provider = _default
ReadDefault(t) ==
    /\ pc[t] = "read_default"
    /\ provider' = [provider EXCEPT
                      ![t] = IF @ = None THEN default[call[t].dom] ELSE @]
    /\ pc' = [pc EXCEPT ![t] = "check_none"]
    /\ UNCHANGED <<providers, default, lock, call, model_name, fnref, last,
                   calls, cleared, firstReg, okReg, focus, stack, nodeVars>>

\* A faulty check that has one message for both "no provider" cases.
CheckNoneOneMessage(t) ==
    /\ pc[t] = "check_none"
    /\ IF provider[t] = None
       THEN RaiseLocked(t, "NoProviderConfigured", "no providers registered",
                        {})
       ELSE /\ pc' = [pc EXCEPT ![t] = "check_known"]
            /\ UNCHANGED <<lock, call, provider, model_name, fnref, last>>
    /\ UNCHANGED <<providers, default, calls, cleared, firstReg, okReg,
                   focus, stack, nodeVars>>

\* if provider is None: raise one of the two "no provider" errors
CheckNone(t) ==
    /\ pc[t] = "check_none"
    /\ IF provider[t] = None
       THEN RaiseLocked(t, "NoProviderConfigured",
                        IF DOMAIN providers[call[t].dom] = {}
                        THEN "no providers registered"
                        ELSE "no default provider", {})
       ELSE /\ pc' = [pc EXCEPT ![t] = "check_known"]
            /\ UNCHANGED <<lock, call, provider, model_name, fnref, last>>
    /\ UNCHANGED <<providers, default, calls, cleared, firstReg, okReg,
                   focus, stack, nodeVars>>

\* if provider not in _providers:
CheckKnown(t) ==
    /\ pc[t] = "check_known"
    /\ pc' = [pc EXCEPT ![t] =
                IF provider[t] \in DOMAIN providers[call[t].dom]
                THEN "fetch" ELSE "list_available"]
    /\ UNCHANGED <<providers, default, lock, call, provider, model_name,
                   fnref, last, calls, cleared, firstReg, okReg,
                   focus, stack, nodeVars>>

\* available = list(_providers.keys()); raise ValueError(...)
ListAvailable(t) ==
    /\ pc[t] = "list_available"
    /\ RaiseLocked(t, "UnknownProvider", "",
                   DOMAIN providers[call[t].dom])
    /\ UNCHANGED <<providers, default, calls, cleared, firstReg, okReg,
                   focus, stack, nodeVars>>

\* A faulty dispatch that fetches the function of the default provider.
FetchDefault(t) ==
    /\ pc[t] = "fetch"
    /\ fnref' = [fnref EXCEPT ![t] =
                   providers[call[t].dom][default[call[t].dom]]]
    /\ pc' = [pc EXCEPT ![t] = "release"]
    /\ UNCHANGED <<providers, default, lock, call, provider, model_name,
                   last, calls, cleared, firstReg, okReg,
                   focus, stack, nodeVars>>

\* A faulty dispatch that makes the provider it resolved the default.
FetchRemembering(t) ==
    /\ pc[t] = "fetch"
    /\ fnref' = [fnref EXCEPT ![t] = providers[call[t].dom][provider[t]]]
    /\ default' = [default EXCEPT ![call[t].dom] = provider[t]]
    /\ pc' = [pc EXCEPT ![t] = "release"]
    /\ UNCHANGED <<providers, lock, call, provider, model_name,
                   last, calls, cleared, firstReg, okReg,
                   focus, stack, nodeVars>>

\* fn = _providers[provider]
Fetch(t) ==
    /\ pc[t] = "fetch"
    /\ fnref' = [fnref EXCEPT ![t] = providers[call[t].dom][provider[t]]]
    /\ pc' = [pc EXCEPT ![t] = "release"]
    /\ UNCHANGED <<providers, default, lock, call, provider, model_name,
                   last, calls, cleared, firstReg, okReg,
                   focus, stack, nodeVars>>

\* A faulty dispatch that calls the provider inside the `with _lock` block.
ReleaseKeepingLock(t) ==
    /\ pc[t] = "release"
    /\ pc' = [pc EXCEPT ![t] = "invoke"]
    /\ UNCHANGED <<providers, default, lock, call, provider, model_name,
                   fnref, last, calls, cleared, firstReg, okReg,
                   focus, stack, nodeVars>>

\* the end of the `with _lock` block
Release(t) ==
    /\ pc[t] = "release"
    /\ lock' = [lock EXCEPT ![call[t].dom] = @ \ {t}]
    /\ pc' = [pc EXCEPT ![t] = "invoke"]
    /\ UNCHANGED <<providers, default, call, provider, model_name, fnref,
                   last, calls, cleared, firstReg, okReg,
                   focus, stack, nodeVars>>

\* A faulty dispatch that lets one provider function run at a time.
InvokeSerialized(t) ==
    /\ pc[t] = "invoke"
    /\ \A u \in Threads : pc[u] # "running"
    /\ pc' = [pc EXCEPT ![t] = "running"]
    /\ UNCHANGED <<providers, default, lock, call, provider, model_name,
                   fnref, last, calls, cleared, firstReg, okReg,
                   focus, stack, nodeVars>>

\* A faulty dispatch that looks the function up again when it calls it.
InvokeLateBound(t) ==
    /\ pc[t] = "invoke"
    /\ fnref' = [fnref EXCEPT ![t] = providers[call[t].dom][provider[t]]]
    /\ pc' = [pc EXCEPT ![t] = "running"]
    /\ UNCHANGED <<providers, default, lock, call, provider, model_name,
                   last, calls, cleared, firstReg, okReg,
                   focus, stack, nodeVars>>

\* fn(prompt, model_name, **kwargs): the provider function starts running
Invoke(t) ==
    /\ pc[t] = "invoke"
    /\ pc' = [pc EXCEPT ![t] = "running"]
    /\ UNCHANGED <<providers, default, lock, call, provider, model_name,
                   fnref, last, calls, cleared, firstReg, okReg,
                   focus, stack, nodeVars>>

\* A faulty dispatch that calls fn(prompt, model_name) without **kwargs.
ProviderReturnNoOptions(t) ==
    /\ pc[t] = "running"
    /\ Exit(t, call[t],
            Returned(ProviderValue(fnref[t], call[t].payload, model_name[t],
                                   NoOptions),
                     fnref[t]))
    /\ UNCHANGED <<providers, default, lock, calls, cleared, firstReg,
                   okReg, focus, stack, nodeVars>>

\* return fn(...): the provider's value is the dispatch's value
ProviderReturn(t) ==
    /\ pc[t] = "running"
    /\ Exit(t, call[t],
            Returned(ProviderValue(fnref[t], call[t].payload, model_name[t],
                                   call[t].options),
                     fnref[t]))
    /\ UNCHANGED <<providers, default, lock, calls, cleared, firstReg,
                   okReg, focus, stack, nodeVars>>

\* A faulty dispatch that unregisters the provider that raised.
ProviderRaiseEvicting(t) ==
    /\ pc[t] = "running"
    /\ Exit(t, call[t], Raised("ProviderError", fnref[t], {}, fnref[t]))
    /\ providers' =
           LET reg == providers[call[t].dom]
               kept == {n \in DOMAIN reg : reg[n] # fnref[t]}
           IN  [providers EXCEPT ![call[t].dom] = [n \in kept |-> reg[n]]]
    /\ UNCHANGED <<default, lock, calls, cleared, firstReg,
                   okReg, focus, stack, nodeVars>>

\* the provider raises: its error, here named after the function that raised
\* it, leaves the dispatch as it is
ProviderRaise(t) ==
    /\ pc[t] = "running"
    /\ Exit(t, call[t], Raised("ProviderError", fnref[t], {}, fnref[t]))
    /\ UNCHANGED <<providers, default, lock, calls, cleared, firstReg,
                   okReg, focus, stack, nodeVars>>

\* llm._default = None, done from outside the module (the tests do it) by a
\* caller that is between two calls
ResetDefault(d) ==
    /\ calls < MaxCalls
    /\ calls' = calls + 1
    /\ default' = [default EXCEPT ![d] = None]
    /\ cleared' = [cleared EXCEPT ![d] = TRUE]
    /\ last' = NoLast
    /\ UNCHANGED <<providers, lock, pc, call, provider, model_name, fnref,
                   firstReg, okReg, focus, stack, nodeVars>>

\* What a dispatch of registry d with payload p and address m comes to when
\* it runs alone on the current state and its provider returns: the error it
\* raises ("": none), the function it calls and the model part it hands it.
Resolve(d, p, m) ==
    LET r == Parse(d, p, m)
        n == IF r.provider = None THEN default[d] ELSE r.provider
        Fails(e) == [err |-> e, by |-> NoFn, model |-> None]
    IN  IF r.err # "" THEN Fails(r.err)
        ELSE IF n = None THEN Fails("NoProviderConfigured")
        ELSE IF n \notin DOMAIN providers[d] THEN Fails("UnknownProvider")
        ELSE [err |-> "", by |-> providers[d][n], model |-> r.model_name]

\* ------------------------------------------------------------------ inputs
\* keyword arguments as the tests pass them to a dispatch
SomeOptions == {<<"temperature", "0.5">>}
A == <<"a">>
B == <<"b">>
Hi == <<"h">>
\* register(name, fn) calls: valid ones, then a name that is empty, padded
\* on either side, holds a slash, is None, is no str; a function that is not
\* callable, alone and together with a bad name
SeqRegs == {<<A, "f1">>, <<A, "f2">>, <<B, "f1">>, <<B, "f2">>,
            <<<<>>, "f1">>, <<<<" ", "a">>, "f1">>, <<<<"a", " ">>, "f1">>,
            <<<<"a", "/", "b">>, "f1">>, <<None, "f1">>, <<NotAStr, "f1">>,
            <<A, NotCallable>>, <<<<>>, NotCallable>>}
\* model / provider arguments of a dispatch
Addresses == {None, <<>>, <<"m">>, <<"a">>, <<"a", "/", "m">>,
              <<"b", "/", "m">>, <<"/", "m">>, <<"a", "/">>,
              <<"a", "/", "m", "/", "x">>}
\* dispatch(payload, address, **options) calls: a str payload with every
\* address, a payload that is no str with a good and with a malformed
\* address, and calls with a keyword argument
SeqDispatches ==
    {<<Hi, m, NoOptions>> : m \in Addresses}
        \cup {<<NotAStr, None, NoOptions>>,
              <<NotAStr, <<"/", "m">>, NoOptions>>}
        \cup {<<Hi, m, SomeOptions>> : m \in {None, <<"a", "/", "m">>}}

\* the steps of a call in progress
Step(t) ==
    \/ RegInsert(t)
    \/ RegCheckDefault(t)
    \/ RegSetDefault(t)
    \/ Acquire(t)
    \/ ReadDefault(t)
    \/ CheckNone(t)
    \/ CheckKnown(t)
    \/ ListAvailable(t)
    \/ Fetch(t)
    \/ Release(t)
    \/ Invoke(t)
    \/ ProviderReturn(t)
    \/ ProviderRaise(t)

\* The inputs of the concurrent runs: register "a" (with either function) or
\* "b"; dispatch to the default or to provider "a".
ConcRegs == {<<A, "f1">>, <<A, "f2">>, <<B, "f1">>}
ConcAddresses == {None, <<"a", "/", "m">>}

\* Threads call register and dispatch concurrently.
Next ==
    \/ \E t \in Threads, d \in Domains, r \in ConcRegs :
          StartRegister(t, d, r[1], r[2])
    \/ \E t \in Threads, d \in Domains, m \in ConcAddresses :
          StartDispatch(t, d, Hi, m, NoOptions)
    \/ \E t \in Threads : Step(t)

\* Within one concurrent run every call goes to the same registry.
Init == InitState /\ \E d \in Domains : focus = {d}

Spec == Init /\ [][Next]_vars

\* One thread makes its calls one after another, on any of the registries;
\* the default may be reset from outside between calls.
MainThread == CHOOSE t \in Threads : TRUE

InitSeq == InitState /\ focus = Domains

NextSeq ==
    \/ \E d \in Domains, r \in SeqRegs :
          StartRegister(MainThread, d, r[1], r[2])
    \/ \E d \in Domains, c \in SeqDispatches :
          StartDispatch(MainThread, d, c[1], c[2], c[3])
    \/ Step(MainThread)
    \/ \E d \in Domains : pc[MainThread] = "idle" /\ ResetDefault(d)

SpecSeq == InitSeq /\ [][NextSeq]_vars

\* The registry after setUp registered "a" and then "b": both are in the
\* map and "a", the first, is the default.
Registered == (A :> "f1") @@ (B :> "f2")
InitServe ==
    /\ NodeIdle
    /\ stack = [t \in Threads |-> <<>>]
    /\ \E d \in Domains : focus = {d}
    /\ providers = [d \in Domains |->
                       IF d \in focus THEN Registered ELSE EmptyDict]
    /\ default = [d \in Domains |-> IF d \in focus THEN A ELSE None]
    /\ firstReg = [d \in Domains |-> IF d \in focus THEN A ELSE None]
    /\ okReg = [d \in Domains |->
                   IF d \in focus THEN {<<A, "f1">>, <<B, "f2">>} ELSE {}]
    /\ lock = [d \in Domains |-> {}]
    /\ pc = [t \in Threads |-> "idle"]
    /\ call = [t \in Threads |-> NoCall]
    /\ provider = [t \in Threads |-> None]
    /\ model_name = [t \in Threads |-> None]
    /\ fnref = [t \in Threads |-> NoFn]
    /\ last = NoLast
    /\ calls = 0
    /\ cleared = [d \in Domains |-> FALSE]

\* The worker threads of the tests: each dispatches its own prompt to a
\* registered provider, or to the default.
ServePayloads == {Hi, <<"x">>}
ServeAddresses(d) ==
    IF d \in AddressDomains
    THEN {<<"m">>, <<"a", "/", "m">>, <<"b", "/", "x">>}
    ELSE {None, A, B}

\* the steps of a dispatch whose provider is registered and returns
ServeStep(t) ==
    \/ Acquire(t)
    \/ ReadDefault(t)
    \/ CheckNone(t)
    \/ CheckKnown(t)
    \/ Fetch(t)
    \/ Release(t)
    \/ Invoke(t)
    \/ ProviderReturn(t)

\* Registration is over; threads dispatch concurrently.
NextServe ==
    \/ \E t \in Threads, d \in Domains, p \in ServePayloads :
          \E m \in ServeAddresses(d) :
              StartDispatch(t, d, p, m, NoOptions)
    \/ \E t \in Threads : ServeStep(t)

SpecServe == InitServe /\ [][NextServe]_vars

\* ------------------------------------------------------------------ LLMNode
\* \w of the regular expression, and the digits among it
WordChars == {"a", "b", "m", "x", "h", "0", "q", "i", "n", "p", "u", "t"}
Digits == {"0"}

\* the index of the last character of the longest run of word characters
\* that starts at i (i - 1 when there is none)
RECURSIVE WordRunEnd(_, _)
WordRunEnd(s, i) ==
    IF i <= Len(s) /\ s[i] \in WordChars THEN WordRunEnd(s, i + 1) ELSE i - 1

\* re.findall(r'\{(\w+)\}', s), scanning from index i: a match is a "{", a
\* run of word characters that cannot be longer, and a "}"; the scan goes on
\* behind a match, and one character further where there is none
RECURSIVE FindKeys(_, _)
FindKeys(s, i) ==
    IF i > Len(s) THEN {}
    ELSE IF s[i] # "{" THEN FindKeys(s, i + 1)
    ELSE LET k == WordRunEnd(s, i + 1)
         IN  IF k > i /\ k < Len(s) /\ s[k + 1] = "}"
             THEN {SubSeq(s, i + 1, k)} \cup FindKeys(s, k + 2)
             ELSE FindKeys(s, i + 1)

\* LLMNode._extract_template_keys
ExtractKeys(template) == FindKeys(template, 1)

\* d.get(k, "")
Get(d, k) == IF k \in DOMAIN d THEN d[k] ELSE <<>>

\* the index of the first character at or after i that is one of cs
\* (Len(s) + 1 when there is none)
RECURSIVE IndexOf(_, _, _)
IndexOf(s, i, cs) ==
    IF i > Len(s) \/ s[i] \in cs THEN i ELSE IndexOf(s, i + 1, cs)

\* The outcome of formatting: the text, or the exception raised
Text(s) == [err |-> "", text |-> s]
FormatError(e) == [err |-> e, text |-> <<>>]

\* str.format looks up one replacement field f (what stands between the
\* braces) among the keyword arguments kw, all of them str: an empty or
\* all-digit argument name is positional, and there are no positional
\* arguments; any other name is a keyword; "." reads an attribute, which a
\* str does not have
Field(f, kw) ==
    LET d == IndexOf(f, 1, {"."})
        name == SubSeq(f, 1, d - 1)
        e == IndexOf(f, d + 1, {"."})
    IN  IF name = <<>> \/ \A i \in 1..Len(name) : name[i] \in Digits
        THEN FormatError("IndexError")
        ELSE IF name \notin DOMAIN kw THEN FormatError("KeyError")
        ELSE IF d > Len(f) THEN Text(kw[name])
        ELSE IF e = d + 1 THEN FormatError("ValueError")
        ELSE FormatError("AttributeError")

\* s.format(**kw) from index i on: "{{" and "}}" are literal braces, a
\* single "}" and a "{" without its "}" are errors, and what stands between
\* "{" and "}" is a replacement field; the first error met from the left is
\* the one raised
RECURSIVE Format(_, _, _)
Format(s, i, kw) ==
    LET Then(head, j) ==
            LET rest == Format(s, j, kw)
            IN  IF rest.err # "" THEN rest ELSE Text(head \o rest.text)
    IN  IF i > Len(s) THEN Text(<<>>)
        ELSE IF s[i] = "{"
        THEN IF i < Len(s) /\ s[i + 1] = "{" THEN Then(<<"{">>, i + 2)
             ELSE LET j == IndexOf(s, i + 1, {"{", "}"})
                  IN  IF j > Len(s) \/ s[j] = "{"
                      THEN FormatError("ValueError")
                      ELSE LET v == Field(SubSeq(s, i + 1, j - 1), kw)
                           IN  IF v.err # "" THEN v ELSE Then(v.text, j + 1)
        ELSE IF s[i] = "}"
        THEN IF i < Len(s) /\ s[i + 1] = "}" THEN Then(<<"}">>, i + 2)
             ELSE FormatError("ValueError")
        ELSE Then(<<s[i]>>, i + 1)

\* A faulty prep that gathers the keys of the template only.
PrepTemplateKeysOnly(n, sh) ==
    [k \in ExtractKeys(n.prompt_template) |-> Get(sh, k)]

\* "input", the key the template may use for the value under input_key
InputAlias == <<"i", "n", "p", "u", "t">>

\* A faulty prep without the alias: "input" is read from the store like any
\* other key.
PrepNoAlias(n, sh) ==
    LET context == [k \in ExtractKeys(n.prompt_template) |-> Get(sh, k)]
    IN  IF n.input_key \notin DOMAIN context
        THEN (n.input_key :> Get(sh, n.input_key)) @@ context
        ELSE context

\* A faulty prep that uses the alias only when the store has no "input".
PrepAliasIfMissing(n, sh) ==
    LET keys == ExtractKeys(n.prompt_template)
        context == [k \in keys |-> Get(sh, k)]
        withKey == IF n.input_key \notin DOMAIN context
                   THEN (n.input_key :> Get(sh, n.input_key)) @@ context
                   ELSE context
    IN  IF /\ InputAlias \in keys
           /\ n.input_key # InputAlias
           /\ InputAlias \notin DOMAIN sh
        THEN [withKey EXCEPT ![InputAlias] = Get(sh, n.input_key)]
        ELSE withKey

\* LLMNode.prep: the context dict gathered from the shared store sh
PrepContext(n, sh) ==
    LET keys == ExtractKeys(n.prompt_template)
        context == [k \in keys |-> Get(sh, k)]
        withKey == IF n.input_key \notin DOMAIN context
                   THEN (n.input_key :> Get(sh, n.input_key)) @@ context
                   ELSE context
    IN  IF InputAlias \in keys /\ n.input_key # InputAlias
        THEN [withKey EXCEPT ![InputAlias] = Get(sh, n.input_key)]
        ELSE withKey

\* LLMNode.exec: what exec may return or raise on the context ctx. Formatting
\* may raise; call_llm runs alone on the registry and may raise; the provider
\* returns a value or raises.
ExecFailed(e, p) ==
    [status |-> "error", err |-> e, prompt |-> p, value |-> NoValue]
ExecOutcomes(n, ctx) ==
    LET r == Format(n.prompt_template, 1, ctx)
        d == Resolve("llm", r.text, n.model)
    IN  IF r.err # "" THEN {ExecFailed(r.err, None)}
        ELSE IF d.err # "" THEN {ExecFailed(d.err, r.text)}
        ELSE {[status |-> "ok", err |-> "", prompt |-> r.text,
               value |-> ProviderValue(d.by, r.text, d.model, n.llm_kwargs)],
              ExecFailed("ProviderError", r.text)}

\* register and the dispatchers are not called from outside during node.run
registryVars == <<providers, default, lock, pc, call, provider, model_name,
                  fnref, last, calls, cleared, firstReg, okReg, focus,
                  stack>>

\* node.run(shared): prep
Prep ==
    /\ phase = "new"
    /\ prep_res' = PrepContext(node, shared)
    /\ phase' = "prepped"
    /\ UNCHANGED <<registryVars, node, shared, exec_res>>

\* A faulty exec that stores a fallback value when the dispatch fails.
ExecWithFallback ==
    /\ phase = "prepped"
    /\ \E o \in ExecOutcomes(node, prep_res) :
           /\ exec_res' = o
           /\ phase' = "executed"
    /\ UNCHANGED <<registryVars, node, shared, prep_res>>

\* node.run(shared): exec
Exec ==
    /\ phase = "prepped"
    /\ \E o \in ExecOutcomes(node, prep_res) :
           /\ exec_res' = o
           /\ phase' = IF o.status = "ok" THEN "executed" ELSE "failed"
    /\ UNCHANGED <<registryVars, node, shared, prep_res>>

\* A faulty post that keeps a value the store already has under output_key.
PostKeepingOld ==
    /\ phase = "executed"
    /\ shared' = shared @@ (node.output_key :> exec_res.value)
    /\ phase' = "done"
    /\ UNCHANGED <<registryVars, node, prep_res, exec_res>>

\* node.run(shared): post
Post ==
    /\ phase = "executed"
    /\ shared' = (node.output_key :> exec_res.value) @@ shared
    /\ phase' = "done"
    /\ UNCHANGED <<registryVars, node, prep_res, exec_res>>

\* Prompt templates are made of at most MaxParts of these pieces: text,
\* placeholders, braces that are escaped, unbalanced or empty, a placeholder
\* that is a number, and one that reads an attribute.
MaxParts == 2
TemplateParts ==
    {<<"h">>, <<".">>, <<"{", "q", "}">>, <<"{", "i", "n", "p", "u", "t", "}">>,
     <<"{", "0", "}">>, <<"{", "}">>, <<"{">>, <<"}">>, <<"{", "{">>,
     <<"}", "}">>, <<"{", "q", ".", "q", "}">>}
RECURSIVE Templates(_)
Templates(n) ==
    IF n = 0 THEN {<<>>}
    ELSE Templates(n - 1)
             \cup {s \o p : s \in Templates(n - 1), p \in TemplateParts}

\* The shared stores of the runs: any of the keys "q" and "input" present,
\* with either of two values.
Q == <<"q">>
Answer == <<"a">>
SharedStores ==
    UNION {[S -> {<<"x">>, <<"h">>}] : S \in SUBSET {Q, InputAlias}}
Nodes ==
    [input_key : {Q, InputAlias}, output_key : {Answer, Q},
     prompt_template : Templates(MaxParts),
     model : {None, <<"b", "/", "m">>}, llm_kwargs : {NoOptions}]

\* An LLMNode has been built and is about to be run on a shared store; the
\* llm registry holds "a", the default, and "b".
InitNode ==
    /\ focus = {"llm"}
    /\ stack = [t \in Threads |-> <<>>]
    /\ providers = [d \in Domains |->
                       IF d \in focus THEN Registered ELSE EmptyDict]
    /\ default = [d \in Domains |-> IF d \in focus THEN A ELSE None]
    /\ firstReg = [d \in Domains |-> IF d \in focus THEN A ELSE None]
    /\ okReg = [d \in Domains |->
                   IF d \in focus THEN {<<A, "f1">>, <<B, "f2">>} ELSE {}]
    /\ lock = [d \in Domains |-> {}]
    /\ pc = [t \in Threads |-> "idle"]
    /\ call = [t \in Threads |-> NoCall]
    /\ provider = [t \in Threads |-> None]
    /\ model_name = [t \in Threads |-> None]
    /\ fnref = [t \in Threads |-> NoFn]
    /\ last = NoLast
    /\ calls = 0
    /\ cleared = [d \in Domains |-> FALSE]
    /\ node \in Nodes
    /\ shared \in SharedStores
    /\ phase = "new"
    /\ prep_res = EmptyShared
    /\ exec_res = NoExec

NextNode == Prep \/ Exec \/ Post

SpecNode == InitNode /\ [][NextNode]_vars

\* ---------------------------------------------------------------- SearchNode
\* The registry of domain d when a node is run: after setUp registered "a"
\* and "b" (full), or with nothing registered; no call is in progress.
RegistryReady(d, full) ==
    /\ focus = {d}
    /\ stack = [t \in Threads |-> <<>>]
    /\ providers = [e \in Domains |->
                       IF e = d /\ full THEN Registered ELSE EmptyDict]
    /\ default = [e \in Domains |-> IF e = d /\ full THEN A ELSE None]
    /\ firstReg = [e \in Domains |-> IF e = d /\ full THEN A ELSE None]
    /\ okReg = [e \in Domains |->
                   IF e = d /\ full THEN {<<A, "f1">>, <<B, "f2">>} ELSE {}]
    /\ lock = [e \in Domains |-> {}]
    /\ pc = [t \in Threads |-> "idle"]
    /\ call = [t \in Threads |-> NoCall]
    /\ provider = [t \in Threads |-> None]
    /\ model_name = [t \in Threads |-> None]
    /\ fnref = [t \in Threads |-> NoFn]
    /\ last = NoLast
    /\ calls = 0
    /\ cleared = [e \in Domains |-> FALSE]

\* What exec of a SearchNode returns is a list or a str: an empty list and an
\* empty str are different values.
ListValue(rs) == [list |-> rs]
StrValue(s) == [str |-> s]

\* The fixed texts of _format_results, each a str of one piece here
NoResultsFound == <<"No results found.">>
NoTitle == <<"No title">>
NoDescription == <<"No description">>

\* str(i) of the block numbers
DecimalDigits == <<"1", "2", "3", "4", "5", "6", "7", "8", "9">>
IndexStr(i) == <<DecimalDigits[i]>>

\* r.get(k, dflt) of a result record
GetOr(r, k, dflt) == IF k \in DOMAIN r THEN r[k] ELSE dflt

\* f"{i}. {title}\n   {snippet}\n   URL: {url}"
Block(i, r) ==
    IndexStr(i) \o <<". ">> \o GetOr(r, "title", NoTitle)
        \o <<"\n   ">> \o GetOr(r, "snippet", NoDescription)
        \o <<"\n   URL: ">> \o GetOr(r, "url", <<>>)

\* "\n\n".join(formatted), from block i on
RECURSIVE JoinBlocks(_, _)
JoinBlocks(rs, i) ==
    IF i > Len(rs) THEN <<>>
    ELSE (IF i > 1 THEN <<"\n\n">> ELSE <<>>)
             \o Block(i, rs[i]) \o JoinBlocks(rs, i + 1)

\* A faulty _format_results without the text for an empty list.
FormatResultsNoEmptyCase(rs) == JoinBlocks(rs, 1)

\* SearchNode._format_results
FormatResults(rs) == IF rs = <<>> THEN NoResultsFound ELSE JoinBlocks(rs, 1)

\* SearchNode.exec: what exec may return or raise for the query; a provider
\* returns any of the result lists rss or raises
SearchDone(by, rs, v) ==
    [status |-> "ok", err |-> "", by |-> by, results |-> rs, value |-> v]
SearchFailed(e, by) ==
    [status |-> "error", err |-> e, by |-> by, results |-> <<>>,
     value |-> ListValue(<<>>)]
\* A faulty exec that hands an empty query to web_search like any other.
SearchOutcomesNoShortCut(n, query, rss) ==
    LET d == Resolve("search", query, n.provider)
    IN  IF d.err # "" THEN {SearchFailed(d.err, NoFn)}
        ELSE {SearchDone(d.by, rs, IF n.format_results
                                   THEN StrValue(FormatResults(rs))
                                   ELSE ListValue(rs)) : rs \in rss}
                 \cup {SearchFailed("ProviderError", d.by)}

SearchOutcomes(n, query, rss) ==
    LET d == Resolve("search", query, n.provider)
    IN  IF ~Truthy(query)
        THEN {SearchDone(NoFn, <<>>, IF n.format_results
                                     THEN StrValue(<<>>)
                                     ELSE ListValue(<<>>))}
        ELSE IF d.err # "" THEN {SearchFailed(d.err, NoFn)}
        ELSE {SearchDone(d.by, rs, IF n.format_results
                                   THEN StrValue(FormatResults(rs))
                                   ELSE ListValue(rs)) : rs \in rss}
                 \cup {SearchFailed("ProviderError", d.by)}

\* The records a search provider may return: any of title, snippet and url
\* present; and the lists of at most MaxResults of them.
MaxResults == 2
FieldValues == [title |-> <<"t">>, snippet |-> <<"s">>, url |-> <<"u">>]
ResultRecords ==
    {[f \in S |-> FieldValues[f]] : S \in SUBSET {"title", "snippet", "url"}}
ResultLists == UNION {[1..n -> ResultRecords] : n \in 0..MaxResults}

\* A faulty prep that reads the query with shared.setdefault(input_key, "").
SearchPrepSettingDefault ==
    /\ phase = "new"
    /\ prep_res' = Get(shared, node.input_key)
    /\ shared' = shared @@ (node.input_key :> <<>>)
    /\ phase' = "prepped"
    /\ UNCHANGED <<registryVars, node, exec_res>>

\* node.run(shared): prep
SearchPrep ==
    /\ phase = "new"
    /\ prep_res' = Get(shared, node.input_key)
    /\ phase' = "prepped"
    /\ UNCHANGED <<registryVars, node, shared, exec_res>>

\* node.run(shared): exec
SearchExec ==
    /\ phase = "prepped"
    /\ \E o \in SearchOutcomes(node, prep_res, ResultLists) :
           /\ exec_res' = o
           /\ phase' = IF o.status = "ok" THEN "executed" ELSE "failed"
    /\ UNCHANGED <<registryVars, node, shared, prep_res>>

\* node.run(shared): post
SearchPost ==
    /\ phase = "executed"
    /\ shared' = (node.output_key :> exec_res.value) @@ shared
    /\ phase' = "done"
    /\ UNCHANGED <<registryVars, node, prep_res, exec_res>>

\* The SearchNodes of the runs: provider left out, registered, or unknown;
\* results raw or formatted. The stores: no query, an empty one, a query,
\* and a query that is no str.
SearchNodes ==
    [input_key : {Q}, output_key : {Answer}, provider : {None, B, <<"x">>},
     format_results : BOOLEAN, search_kwargs : {NoOptions}]
SearchStores == {EmptyShared, Q :> <<>>, Q :> <<"h">>, Q :> NotAStr}

\* A SearchNode has been built and is about to be run on a shared store;
\* the search registry holds "a" and "b", or nothing.
InitSearchNode ==
    /\ \E full \in BOOLEAN : RegistryReady("search", full)
    /\ node \in SearchNodes
    /\ shared \in SearchStores
    /\ phase = "new"
    /\ prep_res = EmptyShared
    /\ exec_res = NoExec

NextSearchNode == SearchPrep \/ SearchExec \/ SearchPost

SpecSearchNode == InitSearchNode /\ [][NextSearchNode]_vars

\* ---------------------------------------------------- both adapters, any
\* registry: LLMNodes with the default template whose model is left out,
\* names the registered "b", has an empty provider part or names the
\* unknown "x", and the SearchNodes above, each on a registry that is empty
\* or holds "a", the default, and "b".
DefaultTemplate == <<"{", "i", "n", "p", "u", "t", "}">>
PlainNodes ==
    [input_key : {Q}, output_key : {Answer, Q},
     prompt_template : {DefaultTemplate},
     model : {None, <<"b", "/", "m">>, <<"/", "m">>, <<"x", "/", "m">>},
     llm_kwargs : {NoOptions}]
IsLLMNode == "prompt_template" \in DOMAIN node

InitAdapters ==
    \/ /\ \E full \in BOOLEAN : RegistryReady("llm", full)
       /\ node \in PlainNodes
       /\ shared \in SharedStores
       /\ phase = "new"
       /\ prep_res = EmptyShared
       /\ exec_res = NoExec
    \/ InitSearchNode

NextAdapters ==
    \/ IsLLMNode /\ NextNode
    \/ ~IsLLMNode /\ NextSearchNode

SpecAdapters == InitAdapters /\ [][NextAdapters]_vars

\* ------------------------------------------- callers on several registries
\* Threads that call register and the dispatchers of any of the three
\* modules, in any interleaving: register "a", dispatch to the default or
\* to "b", which is never registered.
CrossRegs == {<<A, "f1">>}
CrossAddresses(d) ==
    {None, IF d \in AddressDomains THEN <<"b", "/", "m">> ELSE B}

InitCross == InitState /\ focus = Domains

NextCross ==
    \/ \E t \in Threads, d \in Domains, r \in CrossRegs :
          StartRegister(t, d, r[1], r[2])
    \/ \E t \in Threads, d \in Domains :
          \E m \in CrossAddresses(d) : StartDispatch(t, d, Hi, m, NoOptions)
    \/ \E t \in Threads : Step(t)

SpecCross == InitCross /\ [][NextCross]_vars

\* ------------------------------------------------- providers that dispatch
\* A provider function is ordinary code: it may itself call the dispatcher
\* of its own registry. The frame of the outer dispatch waits on the stack
\* of its thread while the inner one runs.
NoFrames == <<>>
Frame(t) == [call |-> call[t], provider |-> provider[t],
             model_name |-> model_name[t], fnref |-> fnref[t]]

\* inside fn(prompt, model_name, **kwargs): a call of the same dispatcher
NestedDispatch(t, m) ==
    LET d == call[t].dom
        c == [op |-> "dispatch", dom |-> d, name |-> None, fn |-> NoFn,
              payload |-> call[t].payload, model |-> m,
              options |-> NoOptions]
        r == Parse(d, c.payload, m)
    IN  /\ pc[t] = "running"
        /\ stack[t] = NoFrames
        /\ calls < MaxCalls
        /\ calls' = calls + 1
        /\ stack' = [stack EXCEPT ![t] = <<Frame(t)>>]
        /\ IF r.err # ""
           THEN Exit(t, c, Raised(r.err, "", {}, NoFn))
           ELSE /\ pc' = [pc EXCEPT ![t] = "acquire"]
                /\ call' = [call EXCEPT ![t] = c]
                /\ provider' = [provider EXCEPT ![t] = r.provider]
                /\ model_name' = [model_name EXCEPT ![t] = r.model_name]
                /\ fnref' = [fnref EXCEPT ![t] = NoFn]
                /\ last' = NoLast
        /\ UNCHANGED <<providers, default, lock, cleared, firstReg, okReg,
                       focus, nodeVars>>

\* the inner dispatch has returned or raised: the provider function that
\* called it goes on
Resume(t) ==
    /\ pc[t] = "idle"
    /\ stack[t] # NoFrames
    /\ pc' = [pc EXCEPT ![t] = "running"]
    /\ call' = [call EXCEPT ![t] = stack[t][1].call]
    /\ provider' = [provider EXCEPT ![t] = stack[t][1].provider]
    /\ model_name' = [model_name EXCEPT ![t] = stack[t][1].model_name]
    /\ fnref' = [fnref EXCEPT ![t] = stack[t][1].fnref]
    /\ stack' = [stack EXCEPT ![t] = NoFrames]
    /\ UNCHANGED <<providers, default, lock, last, calls, cleared, firstReg,
                   okReg, focus, nodeVars>>

\* Threads dispatch to the default or to the unknown provider "x", on a
\* registry that is empty or holds "a", the default, and "b".
LiveAddresses(d) ==
    {None, IF d \in AddressDomains THEN <<"x", "/", "m">> ELSE <<"x">>}

InitLive ==
    /\ NodeIdle
    /\ \E d \in Domains, full \in BOOLEAN : RegistryReady(d, full)

LiveStep(t) ==
    \/ Acquire(t)
    \/ ReadDefault(t)
    \/ CheckNone(t)
    \/ CheckKnown(t)
    \/ ListAvailable(t)
    \/ Fetch(t)
    \/ Release(t)
    \/ Invoke(t)
    \/ ProviderReturn(t)
    \/ ProviderRaise(t)
    \/ Resume(t)

NextLive ==
    \/ \E t \in Threads, d \in Domains :
          \E m \in LiveAddresses(d) :
              /\ stack[t] = NoFrames
              /\ StartDispatch(t, d, Hi, m, NoOptions)
    \/ \E t \in Threads :
          \E m \in LiveAddresses(call[t].dom) : NestedDispatch(t, m)
    \/ \E t \in Threads : LiveStep(t)

\* Every thread that can take a step of its call is scheduled, and a thread
\* waiting for a lock that is released again and again gets it.
SpecLive ==
    /\ InitLive
    /\ [][NextLive]_vars
    /\ \A t \in Threads : WF_vars(LiveStep(t)) /\ SF_vars(Acquire(t))

\* ------------------------------------------------------- repeated runs
\* node.run(shared) is called again on the store the last run left; calls
\* counts the runs after the first, at most MaxRuns.
MaxRuns == 1
RunAgain ==
    /\ phase = "done"
    /\ calls < MaxRuns
    /\ calls' = calls + 1
    /\ phase' = "new"
    /\ prep_res' = EmptyShared
    /\ exec_res' = NoExec
    /\ UNCHANGED <<providers, default, lock, pc, call, provider, model_name,
                   fnref, last, cleared, firstReg, okReg, focus, stack,
                   node, shared>>

\* What a provider returns is opaque here, so the runs start from nodes that
\* do not read their own output back into the template.
InitRuns == InitAdapters /\ node.output_key # node.input_key

NextRuns == NextAdapters \/ RunAgain

SpecRuns == InitRuns /\ [][NextRuns]_vars

\* ------------------------------------------------------------------ claims
\* the positions of a dispatch inside its `with _lock` block
LockedPcs == {"read_default", "check_none", "check_known", "list_available",
              "fetch", "release"}

\* C1: a thread that is calling or running a provider function holds no
\* registry lock; a lock is held only by a dispatch on that registry that is
\* between its acquire and the end of its lookup.
LockNotHeldInProvider ==
    \A t \in Threads :
        /\ pc[t] \in {"invoke", "running"} =>
               \A d \in Domains : t \notin lock[d]
        /\ \A d \in Domains :
               t \in lock[d] =>
                   /\ pc[t] \in LockedPcs
                   /\ call[t].op = "dispatch"
                   /\ call[t].dom = d

\* C1 witness: one thread runs a provider function while another thread
\* holds the lock of the same registry.
ProviderRunsWhileLockTaken ==
    \E t, u \in Threads :
        /\ t # u
        /\ pc[t] = "running"
        /\ lock[call[t].dom] = {u}

\* register() between its first and its last access of (_providers, _default)
InRegisterAccess(t, d) ==
    /\ call[t].op = "register"
    /\ call[t].dom = d
    /\ pc[t] \in {"reg_check", "reg_set"}

\* a dispatch between its first and its last access of the pair
InDispatchAccess(t, d) ==
    /\ call[t].op = "dispatch"
    /\ call[t].dom = d
    /\ pc[t] \in LockedPcs

\* C2: no thread is inside register's insert / default-set steps while
\* another thread is inside register's or dispatch's access to the same
\* registry's (providers, default) pair.
RegistryAccessExclusive ==
    \A d \in Domains : \A t, u \in Threads :
        (t # u /\ InRegisterAccess(t, d)) =>
            ~(InRegisterAccess(u, d) \/ InDispatchAccess(u, d))

\* C3: in a sequential run without an outside reset, the default of a
\* registry is the first name whose register() succeeded, whatever calls
\* (successful or failed registers, dispatches) follow.
DefaultIsFirstRegistered ==
    \A d \in Domains :
        (firstReg[d] # None /\ ~cleared[d]) => default[d] = firstReg[d]

\* C3 witness: "a" was registered first, "b" after it, a dispatch is running
\* and the default is still "a".
FirstStaysDefault ==
    \E d \in Domains :
        /\ firstReg[d] = A
        /\ B \in OkNames(d)
        /\ ~cleared[d]
        /\ default[d] = A
        /\ pc[MainThread] = "running"

\* C4: under any interleaving of register calls (no outside reset), a default
\* that is set is never changed by a later step.
DefaultNeverChangesOnceSet ==
    [][\A d \in Domains : default[d] # None => default'[d] = default[d]]_vars

\* C5: once no register() is in progress on a registry on which registers
\* have returned, the default is one of the names they registered and every
\* one of those names is a key of the providers map.
RaceElectsOneDefault ==
    \A d \in Domains :
        (/\ okReg[d] # {}
         /\ \A t \in Threads : ~(call[t].op = "register" /\ call[t].dom = d))
        => /\ default[d] \in OkNames(d)
           /\ OkNames(d) \subseteq DOMAIN providers[d]

\* C5 witness: register("a") and register("b") raced on the empty registry:
\* "a" returned first and yet "b" is the default; both calls have returned.
RaceOverwroteDefault ==
    \E d \in Domains :
        /\ \A t \in Threads : pc[t] = "idle"
        /\ OkNames(d) = {A, B}
        /\ firstReg[d] = A
        /\ default[d] = B
        /\ DOMAIN providers[d] = {A, B}

\* a register() of a name whose earlier register() returned
ReRegistering(t) ==
    /\ call[t].op = "register"
    /\ call[t].name \in OkNames(call[t].dom)

\* C6: in a sequential run, a register() that has returned left its function
\* stored under its name; while a name is re-registered (no outside reset)
\* the default, the key set and every other entry stay as they are; and a
\* dispatch invokes the function stored under the name it resolved, so after
\* the re-registration the new one.
ReRegisterOverwrites ==
    /\ [][(last'.call.op = "register" /\ last'.out.status = "ok") =>
              providers'[last'.call.dom][last'.call.name] = last'.call.fn]_vars
    /\ [][\A t \in Threads :
              pc'[t] \in {"invoke", "running"} =>
                  fnref'[t] = providers'[call'[t].dom][provider'[t]]]_vars
    /\ [][\A t \in Threads :
              (ReRegistering(t) /\ ~cleared[call[t].dom]) =>
                  LET d == call[t].dom
                  IN  /\ default'[d] = default[d]
                      /\ DOMAIN providers'[d] = DOMAIN providers[d]
                      /\ \A n \in DOMAIN providers[d] \ {call[t].name} :
                             providers'[d][n] = providers[d][n]]_vars

\* C6 witness: register("a", f1) returned earlier, register("a", f2) has just
\* returned: "a" maps to f2 and the default is still "a".
ReRegistered ==
    \E d \in Domains :
        /\ last.call.op = "register" /\ last.call.dom = d
        /\ last.out.status = "ok"
        /\ last.call.name = A /\ last.call.fn = "f2"
        /\ <<A, "f1">> \in okReg[d]
        /\ providers[d][A] = "f2"
        /\ default[d] = A
        /\ ~cleared[d]

\* s is p, a "/", then m, and p holds no "/"
IsSplit(s, p, m) == p \o <<"/">> \o m = s /\ ~HasSlash(p)
Suffixes(s) == {SubSeq(s, i, Len(s)) : i \in 1..(Len(s) + 1)}

\* a call_llm / embed call with a str payload and an address holding a "/"
SlashAddress(c) ==
    /\ c.op = "dispatch"
    /\ c.dom \in AddressDomains
    /\ IsStr(c.payload)
    /\ HasSlash(c.model)

\* C7: for call_llm and embed, an address holding "/" is split at its first
\* "/": the local provider is the part before it, the model handed to the
\* provider function is all that follows it, and when the part before names
\* a registered provider, that provider's function is the one invoked.
AddressSplitsAtFirstSlash ==
    /\ \A t \in Threads :
           SlashAddress(call[t]) =>
               /\ IsSplit(call[t].model, provider[t], model_name[t])
               /\ pc[t] \in {"invoke", "running"} =>
                      /\ provider[t] \in DOMAIN providers[call[t].dom]
                      /\ fnref[t] = providers[call[t].dom][provider[t]]
    /\ SlashAddress(last.call) =>
           \A p \in DOMAIN providers[last.call.dom] :
               \A m \in Suffixes(last.call.model) :
                   IsSplit(last.call.model, p, m) =>
                       /\ last.out.invoked = providers[last.call.dom][p]
                       /\ last.out.status = "ok" =>
                              last.out.value =
                                  ProviderValue(providers[last.call.dom][p],
                                                last.call.payload, m,
                                                last.call.options)
    /\ (SlashAddress(last.call) /\ last.out.invoked # NoFn) =>
           \E p \in DOMAIN providers[last.call.dom] :
               \E m \in Suffixes(last.call.model) :
                   IsSplit(last.call.model, p, m)

\* C7 witness: a dispatch to "a/m/x" returned what provider "a" made of the
\* model "m/x".
SplitWithSecondSlash ==
    /\ SlashAddress(last.call)
    /\ last.call.model = <<"a", "/", "m", "/", "x">>
    /\ last.out.status = "ok"
    /\ last.out.value.model = <<"m", "/", "x">>
    /\ last.out.invoked = providers[last.call.dom][A]

\* a call_llm / embed call with a str payload and an address that starts
\* with "/"
EmptyProviderPart(c) ==
    /\ c.op = "dispatch"
    /\ c.dom \in AddressDomains
    /\ IsStr(c.payload)
    /\ IsStr(c.model)
    /\ c.model # <<>>
    /\ c.model[1] = "/"

\* C8: a call_llm / embed call whose address starts with "/" never gets past
\* its parsing: it fails with InvalidAddressFormat and invokes no provider
\* function, whatever the registry holds.
EmptyProviderRejected ==
    /\ \A t \in Threads : ~EmptyProviderPart(call[t])
    /\ EmptyProviderPart(last.call) =>
           /\ last.out.status = "error"
           /\ last.out.err = "InvalidAddressFormat"
           /\ last.out.invoked = NoFn

\* C8 witness: the address "/m" was rejected on a registry that has a
\* provider and a default that was cleared.
EmptyProviderRejectedWhenCleared ==
    /\ EmptyProviderPart(last.call)
    /\ last.out.err = "InvalidAddressFormat"
    /\ DOMAIN providers[last.call.dom] # {}
    /\ cleared[last.call.dom]
    /\ default[last.call.dom] = None

\* a dispatch with a str payload whose arguments name no provider: for
\* call_llm / embed a model without "/" (or None), for web_search provider=None
NoProviderNamed(c) ==
    /\ c.op = "dispatch"
    /\ IsStr(c.payload)
    /\ \/ c.dom \in AddressDomains /\ ~HasSlash(c.model)
       \/ c.dom \notin AddressDomains /\ c.model = None

\* C9: in a sequential run, a dispatch that names no provider resolves to the
\* default of its registry and invokes the function stored under it; for
\* call_llm / embed the model handed to that function is the address as
\* given (None stays None).
BareModelUsesDefault ==
    /\ \A t \in Threads :
           NoProviderNamed(call[t]) =>
               LET d == call[t].dom
               IN  /\ d \in AddressDomains => model_name[t] = call[t].model
                   /\ pc[t] \in {"check_known", "list_available", "fetch",
                                 "release", "invoke", "running"} =>
                          provider[t] = default[d]
                   /\ pc[t] \in {"invoke", "running"} =>
                          fnref[t] = providers[d][default[d]]
    /\ NoProviderNamed(last.call) =>
           LET d == last.call.dom
           IN  /\ default[d] \in DOMAIN providers[d] =>
                      last.out.invoked = providers[d][default[d]]
               /\ (last.out.status = "ok" /\ d \in AddressDomains) =>
                      last.out.value =
                          ProviderValue(providers[d][default[d]],
                                        last.call.payload, last.call.model,
                                        last.call.options)

\* C9 witness: with "a" and "b" registered and "b" the default, a call_llm
\* / embed call without a model returned what the function of "b" made of
\* the model None.
AbsentModelServedByDefault ==
    /\ NoProviderNamed(last.call)
    /\ last.call.dom \in AddressDomains
    /\ last.call.model = None
    /\ last.out.status = "ok"
    /\ last.out.value.model = None
    /\ DOMAIN providers[last.call.dom] = {A, B}
    /\ default[last.call.dom] = B
    /\ providers[last.call.dom][A] # providers[last.call.dom][B]
    /\ last.out.invoked = providers[last.call.dom][B]

\* C10: in a sequential run, a dispatch that names no provider on a registry
\* without a default fails with NoProviderConfigured and invokes nothing; the
\* variant is "no providers registered" exactly when the map is empty and
\* "no default provider" exactly when the map has an entry and the default
\* was cleared.
NoProviderVariants ==
    /\ \A t \in Threads :
           (NoProviderNamed(call[t]) /\ default[call[t].dom] = None) =>
               pc[t] \in {"acquire", "read_default", "check_none"}
    /\ (NoProviderNamed(last.call) /\ default[last.call.dom] = None) =>
           LET d == last.call.dom
           IN  /\ last.out.status = "error"
               /\ last.out.err = "NoProviderConfigured"
               /\ last.out.invoked = NoFn
               /\ last.out.variant = "no providers registered"
                      <=> DOMAIN providers[d] = {}
               /\ last.out.variant = "no default provider"
                      <=> (DOMAIN providers[d] # {} /\ cleared[d])

\* C10 witness: the default was cleared after a registration and the dispatch
\* failed with the "no default provider" variant.
NoDefaultAfterClear ==
    /\ NoProviderNamed(last.call)
    /\ last.out.err = "NoProviderConfigured"
    /\ last.out.variant = "no default provider"
    /\ cleared[last.call.dom]
    /\ DOMAIN providers[last.call.dom] # {}

\* the dispatch c names provider p: the part before the first "/" of a
\* call_llm / embed address, the whole provider argument of web_search
Names(c, p) ==
    /\ c.op = "dispatch"
    /\ IsStr(c.payload)
    /\ \/ /\ SlashAddress(c)
          /\ p # <<>>
          /\ \E m \in Suffixes(c.model) : IsSplit(c.model, p, m)
       \/ /\ c.dom = "search"
          /\ c.model # None
          /\ p = c.model

\* C11: a dispatch that names a provider which is not a key of the map fails
\* with UnknownProvider without fetching or invoking any function, and the
\* names its error lists are those registered when the provider was looked
\* up, so the provider it names is not among them.
UnknownProviderListsLookupSet ==
    /\ \A t \in Threads : pc[t] = "list_available" => fnref[t] = NoFn
    /\ last.out.err = "UnknownProvider" =>
           /\ last.out.status = "error"
           /\ last.out.invoked = NoFn
           /\ \A p \in last.out.avail : ~Names(last.call, p)

\* C12: a dispatch that fails with NoProviderConfigured carries in its error
\* the names that are registered: with providers registered and the default
\* cleared, the error lists those providers.
NoProviderErrorListsNames ==
    last.out.err = "NoProviderConfigured" =>
        last.out.avail = DOMAIN providers[last.call.dom]

\* a register() name argument that is None, no str, empty, padded with
\* whitespace on either side, or holding a "/"
BadName(n) ==
    \/ n \in {None, NotAStr, <<>>}
    \/ n[1] = " "
    \/ n[Len(n)] = " "
    \/ \E i \in 1..Len(n) : n[i] = "/"

\* C13: register(name, fn) fails with InvalidProviderName when the name is
\* empty, no str, padded with whitespace or holds "/", and with NotCallable
\* when the name is good and fn is not callable; no such call gets past the
\* validation, and the step on which it fails leaves the providers map and
\* the default of every registry as they were.
FailedRegisterChangesNothing ==
    /\ [](\A t \in Threads :
              call[t].op = "register" =>
                  ~BadName(call[t].name) /\ call[t].fn \in Fns)
    /\ []((last.call.op = "register" /\ BadName(last.call.name)) =>
              /\ last.out.status = "error"
              /\ last.out.err = "InvalidProviderName")
    /\ []((/\ last.call.op = "register"
           /\ ~BadName(last.call.name)
           /\ last.call.fn \notin Fns) =>
              /\ last.out.status = "error"
              /\ last.out.err = "NotCallable")
    /\ [][(/\ last' # last
           /\ last'.call.op = "register"
           /\ last'.out.status = "error") =>
              /\ providers' = providers
              /\ default' = default]_vars

\* C13 witness: the first registration on a registry failed on a padded
\* name: the map is still empty and no default was elected.
FailedFirstRegistration ==
    /\ last.call.op = "register"
    /\ last.call.name = <<" ", "a">>
    /\ last.call.fn \in Fns
    /\ last.out.err = "InvalidProviderName"
    /\ providers[last.call.dom] = EmptyDict
    /\ default[last.call.dom] = None
    /\ ~cleared[last.call.dom]

\* C14: a dispatch whose payload is no str fails with InvalidPayloadType for
\* every address and in every state of the registry; it never gets to the
\* `with _lock` statement, so no call in progress, and no holder of a lock,
\* has such a payload, and the failing step changes no lock and invokes no
\* provider function.
NonStrPayloadRejected ==
    /\ [](\A t \in Threads :
              call[t].op = "dispatch" => call[t].payload # NotAStr)
    /\ []((last.call.op = "dispatch" /\ last.call.payload = NotAStr) =>
              /\ last.out.status = "error"
              /\ last.out.err = "InvalidPayloadType"
              /\ last.out.invoked = NoFn)
    /\ [][(/\ last' # last
           /\ last'.call.op = "dispatch"
           /\ last'.call.payload = NotAStr) =>
              /\ lock' = lock
              /\ pc' = pc]_vars

\* C14 witness: with a provider registered and a default set, a payload that
\* is no str was rejected although the address was malformed too.
NonStrPayloadWithBadAddress ==
    /\ last.call.op = "dispatch"
    /\ last.call.payload = NotAStr
    /\ last.call.model = <<"/", "m">>
    /\ last.out.err = "InvalidPayloadType"
    /\ default[last.call.dom] = A
    /\ A \in DOMAIN providers[last.call.dom]

\* m is the second argument the provider of the dispatch c is called with:
\* the part after the first "/" of a call_llm / embed address, the whole
\* address when it holds no "/", and num_results for web_search
ModelPart(c, m) ==
    IF c.dom = "search" THEN m = NumResultsArg
    ELSE IF HasSlash(c.model)
    THEN \E p \in Suffixes(c.model) \cup {SubSeq(c.model, 1, i) :
                                              i \in 0..Len(c.model)} :
             IsSplit(c.model, p, m)
    ELSE m = c.model

\* C15: a dispatch that gets past validation and resolution calls the
\* function it fetched exactly once, with its own payload, its model part
\* and its keyword arguments unchanged; what the function returns is what
\* the dispatch returns, and the error the function raises is the error of
\* the dispatch. A dispatch returns no value without such a call.
DispatchIsProviderOutcome ==
    /\ [](last.out.invoked # NoFn =>
              /\ last.call.op = "dispatch"
              /\ last.out.status = "ok" =>
                     /\ last.out.value.by = last.out.invoked
                     /\ last.out.value.payload = last.call.payload
                     /\ last.out.value.options = last.call.options
                     /\ ModelPart(last.call, last.out.value.model)
              /\ last.out.status = "error" =>
                     /\ last.out.err = "ProviderError"
                     /\ last.out.variant = last.out.invoked)
    /\ []((last.call.op = "dispatch" /\ last.out.status = "ok") =>
              last.out.invoked # NoFn)
    /\ [][\A t \in Threads :
              (pc[t] = "release" /\ pc'[t] # "release") =>
                  /\ pc'[t] = "invoke"
                  /\ fnref[t] = providers[call[t].dom][provider[t]]]_vars
    /\ [][\A t \in Threads :
              (pc[t] = "invoke" /\ pc'[t] # "invoke") =>
                  pc'[t] = "running" /\ fnref'[t] = fnref[t]]_vars
    /\ [][\A t \in Threads :
              (pc'[t] = "running" /\ pc[t] # "running") =>
                  pc[t] = "invoke"]_vars
    /\ [][\A t \in Threads :
              (pc[t] = "running" /\ pc'[t] # "running") =>
                  /\ pc'[t] = "idle"
                  /\ last'.thread = {t}
                  /\ last'.call = call[t]
                  /\ last'.out.invoked = fnref[t]]_vars

\* C15 witness: call_llm("h", model="a/m", temperature="0.5") returned what
\* the function registered as "a" made of "h", "m" and the keyword argument.
ReturnedWithOptions ==
    /\ last.call.op = "dispatch"
    /\ last.call.model = <<"a", "/", "m">>
    /\ last.call.options = SomeOptions
    /\ last.out.status = "ok"
    /\ last.out.value = ProviderValue(providers[last.call.dom][A], Hi,
                                      <<"m">>, SomeOptions)

\* C16: provider functions run in parallel. A thread that has fetched its
\* function can always take its next step (leave the locked block, call the
\* function, finish it) whatever the other threads are doing, and a thread
\* waiting for the lock waits for a thread that is inside the locked block,
\* never for one that is running a provider function.
ParallelInvocation ==
    \A t \in Threads :
        /\ pc[t] \in {"release", "invoke", "running"} => ENABLED Step(t)
        /\ (pc[t] = "acquire" /\ lock[call[t].dom] # {}) =>
               \A u \in lock[call[t].dom] : pc[u] \in LockedPcs

\* C16 witness: every thread is inside the same provider function at once.
AllThreadsInProvider ==
    \E d \in Domains :
        /\ A \in DOMAIN providers[d]
        /\ \A t \in Threads :
               /\ pc[t] = "running"
               /\ call[t].dom = d
               /\ provider[t] = A
               /\ fnref[t] = providers[d][A]

\* the provider name n is the one the dispatch c is to be served by: the one
\* it names, or "a", the default of the registry after setUp, when it names
\* none
ServedBy(c, n) ==
    IF \E p \in DOMAIN Registered : Names(c, p)
    THEN Names(c, n)
    ELSE n = A

\* C17: with "a" and "b" registered beforehand and the threads dispatching
\* concurrently, no call fails or gets stuck: no call takes the unknown
\* provider branch, a call in progress can always be continued, the function
\* a thread has fetched is the one of the provider its own address names (of
\* the default when it names none), and a finished call returned what that
\* function made of the call's own payload and model part.
EveryCallServedByItsProvider ==
    /\ \A t \in Threads :
           /\ pc[t] # "list_available"
           /\ pc[t] \in {"release", "invoke", "running"} =>
                  \E n \in DOMAIN Registered :
                      /\ ServedBy(call[t], n)
                      /\ fnref[t] = Registered[n]
    /\ (\E t \in Threads : pc[t] # "idle") =>
           \E u \in Threads : ENABLED ServeStep(u)
    /\ last.out.status # "error"
    /\ last.call.op = "dispatch" =>
           /\ last.out.status = "ok"
           /\ \E n \in DOMAIN Registered :
                  /\ ServedBy(last.call, n)
                  /\ last.out.value.by = Registered[n]
           /\ last.out.value.payload = last.call.payload
           /\ ModelPart(last.call, last.out.value.model)

\* C17 witness: the call to "b/x" with payload "x" returned the value of the
\* function of "b" while another thread is inside the function of "a" with
\* payload "h".
ServedWhileOtherRuns ==
    /\ last.call.model = <<"b", "/", "x">>
    /\ last.out.value =
           ProviderValue(Registered[B], <<"x">>, <<"x">>, NoOptions)
    /\ \E t \in Threads :
           /\ pc[t] = "running"
           /\ call[t].model = <<"a", "/", "m">>
           /\ call[t].payload = Hi
           /\ fnref[t] = Registered[A]

\* registries d and e hold the same providers and the same default
SameRegistry(d, e) ==
    /\ providers[d] = providers[e]
    /\ default[d] = default[e]

\* the three registries were built by the same register calls, "a" first
ThreeAlike ==
    /\ SameRegistry("llm", "search")
    /\ SameRegistry("llm", "embedding")
    /\ default["llm"] = A
    /\ A \in DOMAIN providers["llm"]

Referenced(s) ==
    {SubSeq(s, p[1] + 1, p[2] - 1) :
        p \in {r \in (1..Len(s)) \X (1..Len(s)) :
                  /\ s[r[1]] = "{"
                  /\ s[r[2]] = "}"
                  /\ r[2] > r[1] + 1
                  /\ \A i \in (r[1] + 1)..(r[2] - 1) : s[i] \in WordChars}}

\* C19 as claimed: after prep the context holds, for every key the template
\* references, the value the shared store has under that key, or "" when it
\* has none, and it always holds input_key.
GatheredHoldsSharedValues ==
    phase = "prepped" =>
        /\ \A k \in Referenced(node.prompt_template) :
               k \in DOMAIN prep_res /\ prep_res[k] = Get(shared, k)
        /\ node.input_key \in DOMAIN prep_res

\* C19 as the code has it: after prep the context holds, for every key the
\* template references, the value the shared store has under that key, or
\* "" when it has none, except that with an input_key other than "input" a
\* referenced key "input" holds the value under input_key; and the context
\* always holds input_key with the store's value, or "".
GatheredHoldsSharedOrAlias ==
    phase = "prepped" =>
        /\ \A k \in Referenced(node.prompt_template) :
               /\ k \in DOMAIN prep_res
               /\ prep_res[k] =
                      IF k = InputAlias /\ node.input_key # InputAlias
                      THEN Get(shared, node.input_key)
                      ELSE Get(shared, k)
        /\ node.input_key \in DOMAIN prep_res
        /\ prep_res[node.input_key] = Get(shared, node.input_key)

\* C19 witness: the template is "{input}", input_key is "q", and the store
\* holds "x" under "input" and "h" under "q": prep gathered "h" for "input".
GatheredAlias ==
    /\ phase = "prepped"
    /\ node.prompt_template = <<"{">> \o InputAlias \o <<"}">>
    /\ node.input_key = Q
    /\ shared = (InputAlias :> <<"x">>) @@ (Q :> <<"h">>)
    /\ prep_res = (InputAlias :> <<"h">>) @@ (Q :> <<"h">>)

\* every brace of the template s belongs to a placeholder: a "{", one or
\* more word characters, and a "}"
OnlyPlaceholders(s) ==
    /\ \A i \in 1..Len(s) :
           s[i] = "{" =>
               LET k == WordRunEnd(s, i + 1)
               IN  k > i /\ k < Len(s) /\ s[k + 1] = "}"
    /\ \A j \in 1..Len(s) :
           s[j] = "}" =>
               \E i \in 1..(j - 1) :
                   /\ s[i] = "{"
                   /\ j > i + 1
                   /\ \A x \in (i + 1)..(j - 1) : s[x] \in WordChars

\* the exceptions str.format raises
FormatErrors == {"ValueError", "IndexError", "KeyError", "AttributeError"}

\* C20: rendering is total. Whatever the template and whichever of its
\* placeholders are missing from the shared store, prep followed by the
\* formatting of exec does not raise; stated here for the templates alone
\* whose braces all belong to {placeholder} tokens.
RenderIsTotal ==
    (phase \in {"executed", "failed"}
         /\ OnlyPlaceholders(node.prompt_template)) =>
        exec_res.err \notin FormatErrors

\* The text of the template s from index i on, with "{{" and "}}" read as
\* one brace and every {key} replaced by the value the node n is to show
\* for it on the store sh: the value under input_key for "input" when
\* input_key is another key, the value under the key itself otherwise, ""
\* when the store has none.
Shown(n, sh, k) ==
    IF k = InputAlias /\ n.input_key # InputAlias
    THEN Get(sh, n.input_key)
    ELSE Get(sh, k)
RECURSIVE Substituted(_, _, _, _)
Substituted(n, sh, s, i) ==
    IF i > Len(s) THEN <<>>
    ELSE IF i < Len(s) /\ s[i] \in {"{", "}"} /\ s[i + 1] = s[i]
    THEN <<s[i]>> \o Substituted(n, sh, s, i + 2)
    ELSE IF s[i] = "{"
    THEN LET j == IndexOf(s, i, {"}"})
         IN  Shown(n, sh, SubSeq(s, i + 1, j - 1))
                 \o Substituted(n, sh, s, j + 1)
    ELSE <<s[i]>> \o Substituted(n, sh, s, i + 1)

\* C21: when input_key is not "input" and the template references {input},
\* prep gathers the value under input_key ("" when the store has none) for
\* "input", and a prompt that exec renders has it in the place of every
\* {input}; the default template "{input}" always renders, to exactly that
\* value.
AliasRendersInputKey ==
    (/\ phase \in {"executed", "failed"}
     /\ node.input_key # InputAlias
     /\ InputAlias \in Referenced(node.prompt_template)) =>
        /\ prep_res[InputAlias] = Get(shared, node.input_key)
        /\ exec_res.err \notin FormatErrors =>
               exec_res.prompt =
                   Substituted(node, shared, node.prompt_template, 1)
        /\ node.prompt_template = <<"{">> \o InputAlias \o <<"}">> =>
               /\ exec_res.err \notin FormatErrors
               /\ exec_res.prompt = Get(shared, node.input_key)

\* C21 witness: input_key is "q", the template is the default "{input}",
\* the store holds "h" under "q" and "x" under "input": the prompt the
\* provider was called with is "h".
DefaultTemplateWithOtherKey ==
    /\ phase = "executed"
    /\ node.input_key = Q
    /\ node.prompt_template = <<"{">> \o InputAlias \o <<"}">>
    /\ shared = (InputAlias :> <<"x">>) @@ (Q :> <<"h">>)
    /\ exec_res.status = "ok"
    /\ exec_res.prompt = <<"h">>
    /\ exec_res.value.payload = <<"h">>

\* the call_llm call that exec of the node makes with the prompt p
NodeCall(p) ==
    [op |-> "dispatch", dom |-> "llm", name |-> None, fn |-> NoFn,
     payload |-> p, model |-> node.model, options |-> node.llm_kwargs]

\* C22: after prep, exec and post have succeeded, the shared store holds
\* under output_key the value returned by the function of the provider that
\* the model of the node names (of the default when it names none), called
\* with the rendered template, the model part and the keyword arguments of
\* the node; post replaces whatever was under output_key and touches no
\* other key.
OutputIsProviderValue ==
    /\ [](phase = "executed" =>
              exec_res.prompt =
                  Substituted(node, shared, node.prompt_template, 1))
    /\ [](phase \in {"executed", "done"} =>
              /\ exec_res.status = "ok"
              /\ \E n \in DOMAIN Registered :
                     /\ ServedBy(NodeCall(exec_res.prompt), n)
                     /\ exec_res.value.by = Registered[n]
              /\ exec_res.value.payload = exec_res.prompt
              /\ ModelPart(NodeCall(exec_res.prompt), exec_res.value.model)
              /\ exec_res.value.options = node.llm_kwargs)
    /\ [](phase = "done" => shared[node.output_key] = exec_res.value)
    /\ [][phase' = "done" =>
              /\ phase = "executed"
              /\ exec_res' = exec_res
              /\ DOMAIN shared' = DOMAIN shared \cup {node.output_key}
              /\ \A k \in DOMAIN shared \ {node.output_key} :
                     shared'[k] = shared[k]]_vars

\* C22 witness: input_key and output_key are both "q", the model is "b/m",
\* the store held "x" under "q": it now holds what the function of "b" made
\* of the prompt "x" and the model "m".
OutputOverwritten ==
    /\ phase = "done"
    /\ node.input_key = Q
    /\ node.output_key = Q
    /\ node.model = <<"b", "/", "m">>
    /\ prep_res[Q] = <<"x">>
    /\ exec_res.prompt = <<"x">>
    /\ shared[Q] = ProviderValue(Registered[B], <<"x">>, <<"m">>, NoOptions)

\* the store has no query for the SearchNode, or an empty one
EmptyQuery ==
    node.input_key \notin DOMAIN shared \/ shared[node.input_key] = <<>>

\* C23: with an empty or missing query exec of the SearchNode never fails
\* and invokes no provider function, whatever the registry holds and
\* whatever provider is configured; it returns, and post stores, the empty
\* list when format_results is off and the empty str (not "No results
\* found.") when it is on.
EmptyQueryShortCircuits ==
    (EmptyQuery /\ phase \in {"executed", "failed", "done"}) =>
        /\ phase # "failed"
        /\ exec_res.status = "ok"
        /\ exec_res.by = NoFn
        /\ exec_res.value = IF node.format_results
                            THEN StrValue(<<>>)
                            ELSE ListValue(<<>>)
        /\ exec_res.value # StrValue(NoResultsFound)
        /\ phase = "done" => shared[node.output_key] = exec_res.value

\* C23 witness: nothing is registered, the node names the unknown provider
\* "x" and formats its results, the store has no query: the run stored the
\* empty str.
MissingQueryOnEmptyRegistry ==
    /\ phase = "done"
    /\ providers["search"] = EmptyDict
    /\ node.provider = <<"x">>
    /\ node.format_results
    /\ node.input_key \notin DOMAIN shared
    /\ shared[node.output_key] = StrValue(<<>>)

\* Block i of the formatted text for the record r, and the text of the
\* first n records of rs: the blocks in order, a blank line between two
ExpectedBlock(i, r) ==
    <<DecimalDigits[i], ". ">>
        \o (IF "title" \in DOMAIN r THEN r["title"] ELSE <<"No title">>)
        \o <<"\n   ">>
        \o (IF "snippet" \in DOMAIN r THEN r["snippet"]
            ELSE <<"No description">>)
        \o <<"\n   URL: ">>
        \o (IF "url" \in DOMAIN r THEN r["url"] ELSE <<>>)
RECURSIVE ExpectedText(_, _)
ExpectedText(rs, n) ==
    IF n = 0 THEN <<>>
    ELSE ExpectedText(rs, n - 1)
             \o (IF n > 1 THEN <<"\n\n">> ELSE <<>>)
             \o ExpectedBlock(n, rs[n])

\* C24: with format_results on and a query that is not empty, what exec
\* returns for a provider that returned N records is the str "No results
\* found." when N = 0, and otherwise N blocks in the order of the records
\* with a blank line between two: block i is "i. " and the title, a line
\* with the snippet and a line "URL: " with the url, where a missing title
\* reads "No title", a missing snippet "No description" and a missing url is
\* empty.
FormattedAsNumberedBlocks ==
    (/\ phase \in {"executed", "done"}
     /\ node.format_results
     /\ ~EmptyQuery) =>
        /\ exec_res.by # NoFn
        /\ exec_res.value =
               StrValue(IF Len(exec_res.results) = 0
                        THEN <<"No results found.">>
                        ELSE ExpectedText(exec_res.results,
                                          Len(exec_res.results)))

\* C24 witness: the provider returned a full record and one with a snippet
\* only; the stored text has the two blocks.
TwoBlocksFormatted ==
    /\ phase = "done"
    /\ node.format_results
    /\ exec_res.results = <<FieldValues, [snippet |-> <<"s">>]>>
    /\ shared[node.output_key] =
           StrValue(<<"1", ". ", "t", "\n   ", "s", "\n   URL: ", "u", "\n\n",
                      "2", ". ", "No title", "\n   ", "s", "\n   URL: ">>)

\* The error of the dispatch that exec is about to call with what prep
\* gathered, "" when the dispatch would reach a provider or is not called
\* (the template does not render, the query is empty).
DispatchError ==
    IF IsLLMNode
    THEN LET r == Format(node.prompt_template, 1, prep_res)
         IN  IF r.err # "" THEN ""
             ELSE Resolve("llm", r.text, node.model).err
    ELSE IF ~Truthy(prep_res) THEN ""
         ELSE Resolve("search", prep_res, node.provider).err
Failures ==
    {"InvalidPayloadType", "InvalidAddressFormat", "NoProviderConfigured",
     "UnknownProvider", "ProviderError"}

\* C25: the adapters do not swallow errors. When the dispatch that exec
\* calls fails, exec fails with that error; whenever exec fails, with a
\* dispatch error or the provider's, it produces no value, the shared store
\* is as it was, and nothing follows: post does not run and output_key is
\* not written.
ErrorsPropagate ==
    /\ [][phase = "prepped" =>
             /\ (DispatchError # "" =>
                     /\ phase' = "failed"
                     /\ exec_res'.status = "error"
                     /\ exec_res'.err = DispatchError)
             /\ (exec_res'.status = "error" =>
                     /\ phase' = "failed"
                     /\ shared' = shared
                     /\ exec_res'.value \in {NoValue, ListValue(<<>>)})]_vars
    /\ [][phase # "failed"]_vars
    /\ [](phase \in {"executed", "done"} => exec_res.status = "ok")

\* C25 witness: an LLMNode whose model has an empty provider part failed
\* with InvalidAddressFormat and the store has nothing under output_key.
FailedWithAddressError ==
    /\ phase = "failed"
    /\ IsLLMNode
    /\ exec_res.err = "InvalidAddressFormat"
    /\ node.output_key \notin DOMAIN shared


\* C26: no step of a register, of a dispatch or of a reset of the default
\* removes a provider: in every registry the names registered after a step
\* include the names registered before it, so the names of a later state
\* include those of every earlier state.
ProvidersOnlyGrow ==
    [][\A d \in Domains :
           DOMAIN providers[d] \subseteq DOMAIN providers'[d]]_vars

\* C26 witness: "a" and "b" are registered and the dispatch that has just
\* ended was failed by its provider; both names are still there.
BothKeptAfterProviderError ==
    /\ \E d \in focus : DOMAIN providers[d] = {A, B}
    /\ last.call.op = "dispatch"
    /\ last.out.err = "ProviderError"


\* The registry a step of thread t works on: that of the call it is in, or
\* of the call it enters.
DomainOfStep(t) == IF pc[t] = "idle" THEN call'[t].dom ELSE call[t].dom
Untouched(d) ==
    /\ providers'[d] = providers[d]
    /\ default'[d] = default[d]
    /\ lock'[d] = lock[d]

\* C27: the three registries are independent. A step of a register or of a
\* dispatch on one registry leaves the providers map, the default and the
\* lock of the other two as they were, whatever other threads are doing
\* there; a thread holds a lock only of the registry of its own call, so
\* never two.
RegistriesIndependent ==
    /\ [][\A t \in Threads :
              IF pc'[t] # pc[t]
              THEN \A d \in Domains \ {DomainOfStep(t)} : Untouched(d)
              ELSE call'[t] = call[t]]_vars
    /\ [][pc' = pc => \A d \in Domains : Untouched(d)]_vars
    /\ [](\A t \in Threads, d \in Domains :
              t \in lock[d] => pc[t] \in LockedPcs /\ call[t].dom = d)
    /\ [](\A t \in Threads :
              Cardinality({d \in Domains : t \in lock[d]}) <= 1)

\* C27 witness: "a" is registered for generation only; one thread holds
\* the lock of generation and another the lock of search, whose map is
\* empty.
TwoRegistriesLocked ==
    /\ DOMAIN providers["llm"] = {A}
    /\ default["llm"] = A
    /\ providers["search"] = EmptyDict
    /\ default["search"] = None
    /\ \E t1, t2 \in Threads :
           /\ t1 # t2
           /\ lock["llm"] = {t1}
           /\ lock["search"] = {t2}


\* C28: register is atomic for a concurrent dispatch. With no reset of the
\* default from outside, a dispatch that names no provider and races with
\* the first registration fails with the "no providers registered" variant
\* or is served by the elected default; it never fails with the "no
\* default provider" variant.
FirstRegistrationAtomic ==
    (/\ NoProviderNamed(last.call)
     /\ ~cleared[last.call.dom]
     /\ last.out.status = "error") =>
        /\ last.out.err = "NoProviderConfigured"
               => last.out.variant = "no providers registered"
        /\ last.out.variant # "no default provider"


\* The address m of a dispatch on registry d has a "/" with nothing before
\* it.
StartsWithSlash(d, m) ==
    d \in AddressDomains /\ IsStr(m) /\ m # <<>> /\ m[1] = "/"

\* C29: the errors of a dispatch come in a fixed order. A payload that is no
\* str fails with InvalidPayloadType whatever the address and the registry
\* are; a str payload with an address whose provider part is empty fails
\* with InvalidAddressFormat whatever the registry is; so a dispatch that
\* fails with NoProviderConfigured or UnknownProvider had a str payload and
\* a well-formed address. The first two fail before the lock is asked for
\* and before the registry is read.
ErrorPrecedence ==
    /\ last.call.op = "dispatch" =>
           /\ ~IsStr(last.call.payload)
                  => last.out.err = "InvalidPayloadType"
           /\ (/\ IsStr(last.call.payload)
               /\ StartsWithSlash(last.call.dom, last.call.model))
                  => last.out.err = "InvalidAddressFormat"
           /\ last.out.err \in {"NoProviderConfigured", "UnknownProvider"}
                  => /\ IsStr(last.call.payload)
                     /\ ~StartsWithSlash(last.call.dom, last.call.model)
    /\ \A t \in Threads :
           (pc[t] # "idle" /\ call[t].op = "dispatch") =>
               /\ IsStr(call[t].payload)
               /\ ~StartsWithSlash(call[t].dom, call[t].model)

\* C29 witness: on an empty registry a dispatch of a str payload to "/m"
\* failed with InvalidAddressFormat, not NoProviderConfigured.
EmptyProviderOnEmptyRegistry ==
    /\ last.call.op = "dispatch"
    /\ last.call.payload = Hi
    /\ last.call.model = <<"/", "m">>
    /\ providers[last.call.dom] = EmptyDict
    /\ default[last.call.dom] = None
    /\ last.out.err = "InvalidAddressFormat"


\* The provider that the dispatch c names itself, None when it names none.
NamedProvider(c) ==
    IF c.dom \in AddressDomains
    THEN IF IsStr(c.model) /\ HasSlash(c.model)
         THEN SplitOnce(c.model)[1] ELSE None
    ELSE c.model

\* C30: a dispatch that names its provider does not consult the default.
\* When the named provider is registered the dispatch is served by it, also
\* when the default is absent or names another provider; when it is not
\* registered the dispatch fails with UnknownProvider, never with
\* NoProviderConfigured, also when nothing is registered.
NamedProviderIgnoresDefault ==
    (/\ last.call.op = "dispatch"
     /\ IsStr(last.call.payload)
     /\ Truthy(NamedProvider(last.call))) =>
        LET d == last.call.dom
            n == NamedProvider(last.call)
        IN  /\ last.out.err # "NoProviderConfigured"
            /\ n \in DOMAIN providers[d] =>
                   /\ last.out.invoked = providers[d][n]
                   /\ last.out.err \in {"", "ProviderError"}
            /\ n \notin DOMAIN providers[d] =>
                   /\ last.out.err = "UnknownProvider"
                   /\ last.out.invoked = NoFn

\* C30 witness: "a" is registered, the default was cleared, and a dispatch
\* that names "a" was served by the function of "a".
NamedServedWithoutDefault ==
    /\ last.call.op = "dispatch"
    /\ NamedProvider(last.call) = A
    /\ default[last.call.dom] = None
    /\ cleared[last.call.dom]
    /\ last.out.status = "ok"
    /\ last.out.invoked = providers[last.call.dom][A]


\* Thread t takes a step of a dispatch: it is inside one, or it is idle and
\* enters one (which may fail on the spot and be the last call at once).
RegisterPcs == {"reg_insert", "reg_check", "reg_set"}
DispatchStep(t) ==
    \/ pc[t] \notin RegisterPcs \cup {"idle"} /\ pc'[t] # pc[t]
    \/ /\ pc[t] = "idle"
       /\ \/ call'[t].op = "dispatch"
          \/ /\ last' # last
             /\ last'.call.op = "dispatch"
             /\ last'.thread = {t}

\* C31: dispatch only reads the registry. Every step of a call_llm,
\* web_search or get_embedding call, up to its return or to whichever error
\* ends it, leaves the providers map and the default of every registry as
\* they were.
DispatchReadsOnly ==
    [][\A t \in Threads :
           DispatchStep(t) =>
               /\ providers' = providers
               /\ default' = default]_vars

\* C31 witness: with "a" registered and the default cleared, a dispatch
\* that named the unknown "b" has failed; "a" is still the only entry and
\* the default is still absent.
RegistryKeptAfterUnknown ==
    /\ last.call.op = "dispatch"
    /\ last.out.err = "UnknownProvider"
    /\ DOMAIN providers[last.call.dom] = {A}
    /\ default[last.call.dom] = None
    /\ cleared[last.call.dom]


\* C32: the lock of a registry is never leaked. Only a thread inside the
\* locked section of a dispatch holds it; every lock that is taken is
\* released again, also when the resolution fails with NoProviderConfigured
\* or UnknownProvider; under fair scheduling every thread that waits for the
\* lock gets it, and every dispatch, a dispatch made by a provider function
\* on its own registry included, comes to its end.
LockNeverLeaked ==
    /\ [](\A t \in Threads, d \in Domains :
              t \in lock[d] => pc[t] \in LockedPcs /\ call[t].dom = d)
    /\ \A d \in Domains : (lock[d] # {}) ~> (lock[d] = {})
    /\ \A t \in Threads : (pc[t] = "acquire") ~> (pc[t] = "read_default")
    /\ \A t \in Threads :
           (pc[t] # "idle" \/ stack[t] # NoFrames)
               ~> (pc[t] = "idle" /\ stack[t] = NoFrames)

\* C32 witness: a provider function has called the dispatcher of its own
\* registry and that inner dispatch holds the lock, while another thread
\* waits for it.
NestedHoldsLockOtherWaits ==
    \E t, u \in Threads :
        /\ t # u
        /\ stack[t] # NoFrames
        /\ stack[t][1].call.dom = call[t].dom
        /\ lock[call[t].dom] = {t}
        /\ pc[u] = "acquire"
        /\ call[u].dom = call[t].dom


\* The positions of a dispatch after its lookup `fn = _providers[provider]`.
AfterLookup == {"release", "invoke", "running"}

\* C33: a dispatch runs the function that its name was mapped to at the
\* moment of its lookup. The lookup takes what the map holds then, so the
\* function of every registration made before it; nothing another thread
\* does afterwards, a registration of the same name included, changes the
\* function the call in flight holds, and that is the function it invokes.
InFlightKeepsItsFunction ==
    /\ [][\A t \in Threads :
              /\ (pc[t] = "fetch" /\ pc'[t] = "release") =>
                     fnref'[t] = providers[call[t].dom][provider[t]]
              /\ (pc[t] \in AfterLookup /\ pc'[t] \in AfterLookup) =>
                     fnref'[t] = fnref[t]
              /\ (pc[t] = "running" /\ pc'[t] = "idle") =>
                     /\ last'.thread = {t}
                     /\ last'.out.invoked = fnref[t]
                     /\ last'.out.status = "ok"
                            => last'.out.value.by = fnref[t]]_vars
    /\ [][\A t \in Threads :
              (pc[t] = "reg_insert" /\ pc'[t] # pc[t]) =>
                  providers'[call[t].dom][call[t].name] = call[t].fn]_vars

\* C33 witness: a dispatch served by "a" returned from f1 although "a" had
\* been registered again, with f2, while it was in flight.
ServedByReplacedFunction ==
    /\ last.call.op = "dispatch"
    /\ last.out.status = "ok"
    /\ last.out.invoked = "f1"
    /\ A \in DOMAIN providers[last.call.dom]
    /\ providers[last.call.dom][A] = "f2"
    /\ DOMAIN providers[last.call.dom] = {A}


\* C34: in every state reached through register and dispatch calls, in any
\* interleaving, the default is absent or a key of the providers map; so
\* the name a dispatch takes from the default is registered, and a dispatch
\* that names no provider never fails with UnknownProvider.
DefaultIsRegistered ==
    /\ \A d \in Domains :
           default[d] # None => default[d] \in DOMAIN providers[d]
    /\ \A t \in Threads :
           (/\ NoProviderNamed(call[t])
            /\ pc[t] \in LockedPcs \ {"read_default"}
            /\ provider[t] # None) =>
               /\ provider[t] \in DOMAIN providers[call[t].dom]
               /\ pc[t] # "list_available"
    /\ NoProviderNamed(last.call) => last.out.err # "UnknownProvider"

\* C34 witness: a dispatch that names no provider was served by the default
\* "a" while another thread was in the middle of registering.
DefaultServedDuringRegister ==
    /\ NoProviderNamed(last.call)
    /\ last.out.status = "ok"
    /\ default[last.call.dom] = A
    /\ last.out.invoked = providers[last.call.dom][A]
    /\ \E u \in Threads : pc[u] \in RegisterPcs


\* The store sh without what it holds under "input".
WithoutInput(sh) == [k \in DOMAIN sh \ {InputAlias} |-> sh[k]]

\* C35: the alias wins over the store. When input_key is not "input", the
\* template references {input} and the store holds a value under "input",
\* that value is not used: what prep gathers and what exec renders are what
\* they would be had the store no "input" at all, and {input} shows the
\* value under input_key also when the two values differ.
AliasShadowsStoredInput ==
    (/\ phase \in {"prepped", "executed", "failed"}
     /\ node.input_key # InputAlias
     /\ InputAlias \in Referenced(node.prompt_template)
     /\ InputAlias \in DOMAIN shared) =>
        /\ \A k \in DOMAIN prep_res :
               prep_res[k] = Shown(node, WithoutInput(shared), k)
        /\ prep_res[InputAlias] = Get(shared, node.input_key)
        /\ (phase # "prepped" /\ exec_res.err \notin FormatErrors) =>
               exec_res.prompt =
                   Substituted(node, WithoutInput(shared),
                               node.prompt_template, 1)

\* C35 witness: input_key is "q", the template is "h{input}", the store
\* holds "x" under "input" and "h" under "q": the provider was called with
\* "hh", and "x" is nowhere in the context.
StoredInputIgnored ==
    /\ phase = "executed"
    /\ node.input_key = Q
    /\ node.prompt_template = <<"h", "{">> \o InputAlias \o <<"}">>
    /\ shared = (InputAlias :> <<"x">>) @@ (Q :> <<"h">>)
    /\ \A k \in DOMAIN prep_res : prep_res[k] # <<"x">>
    /\ exec_res.status = "ok"
    /\ exec_res.value.payload = <<"h", "h">>


\* C36: a run writes output_key and nothing else. No step of prep, exec or
\* post, in the first run or a later one, changes the node's input_key,
\* output_key, template, model, provider or options; prep and exec leave the
\* shared store as it is; post sets the value under output_key to what exec
\* returned and leaves every other key and its value as they were.
RunWritesOnlyOutputKey ==
    [][/\ node' = node
       /\ phase \in {"new", "prepped", "done", "failed"} => shared' = shared
       /\ phase = "executed" =>
              /\ DOMAIN shared' = DOMAIN shared \cup {node.output_key}
              /\ shared'[node.output_key] = exec_res.value
              /\ \A k \in DOMAIN shared \ {node.output_key} :
                     shared'[k] = shared[k]]_vars

\* C36 witness: a SearchNode has run twice on a store with the query "h";
\* the store holds the query and, under output_key, the result of the
\* second run, and the node is configured as it was.
SecondRunDone ==
    /\ ~IsLLMNode
    /\ calls = 1
    /\ phase = "done"
    /\ node \in SearchNodes
    /\ DOMAIN shared = {Q, Answer}
    /\ shared[Q] = <<"h">>
    /\ shared[Answer] = exec_res.value
    /\ exec_res.by # NoFn
====
